---- MODULE Spec2Model ----
(***************************************************************************)
(* Model of the calculexdora calculator: token model, token stream, Pratt  *)
(* parser, AST, evaluator, symbol table and the read-eval-print loop.      *)
(*                                                                         *)
(* Two specifications:                                                     *)
(*   SpecParse  one Parser object: construction from a token vector and    *)
(*              one call of parse_next_statement (src/src/parser.cpp).     *)
(*   Spec       the loop of main (src/src/main.cpp): one persistent symbol *)
(*              table, one statement per line.                             *)
(***************************************************************************)
EXTENDS Integers, Sequences, FiniteSets, TLC

VARIABLES
  pc,        \* where the program is
  symbols,   \* m_vars of the symbol table
  before,    \* history: m_vars when the current statement was read
  toks,      \* the token vector of the current statement
  m_tokens,  \* m_tokens of the parser's TokenList
  stmt,      \* what parse_next_statement returned or threw
  out,       \* what was printed for the statement
  lines,     \* how many lines have been read from the input
  heap,      \* the Expression nodes allocated so far, by address
  held,      \* the addresses of the roots of the trees the caller holds
  call,      \* the last call made on the AST, the table or the tokens
  frames     \* the calls of parse_expression_recursive in progress

\* the variables of the AST objects, and those of the rest of the program
ast == <<heap, held, call>>
program == <<pc, symbols, before, toks, m_tokens, stmt, out, lines, frames>>
vars ==
  <<pc, symbols, before, toks, m_tokens, stmt, out, lines, heap, held, call,
    frames>>

(***************************************************************************)
(* Bounds of the model.                                                    *)
(***************************************************************************)
\* longest token vector enumerated exhaustively for one Parser
MaxLen == 3
\* most binary operators in an operand/operator chain  x0 op1 x1 ... opn xn
MaxOps == 3
\* largest numerator and denominator of a finite double the model carries
MaxMag == 80
\* most lines read in one session of the loop of main
MaxLines == 3
\* most Expression nodes allocated in one run of the AST operations
MaxCells == 6

(***************************************************************************)
(* Doubles.  A value is a record [k, s, n, d]:                             *)
(*   k = "fin"  the finite double s * n / d, s the sign bit (so that -0 is *)
(*              s = -1, n = 0), d a power of two, n/d in lowest terms;     *)
(*   k = "inf"  the infinity of sign s;   k = "nan"  a NaN;                *)
(*   k = "big"  a finite positive double whose digits the model does not   *)
(*              carry (the predefined constants), n its index.             *)
(***************************************************************************)
Fin(s, n, d) == [k |-> "fin", s |-> s, n |-> n, d |-> d]
Num(i) == IF i < 0 THEN Fin(-1, -i, 1) ELSE Fin(1, i, 1)
Half == Fin(1, 1, 2)
PInf == [k |-> "inf", s |-> 1, n |-> 1, d |-> 0]
NInf == [k |-> "inf", s |-> -1, n |-> 1, d |-> 0]
NaN == [k |-> "nan", s |-> 1, n |-> 0, d |-> 0]
Big(i) == [k |-> "big", s |-> 1, n |-> i, d |-> 1]

\* marks a result outside the doubles the model carries: one that is not
\* exact in binary, beyond MaxMag, or computed from a "big" value
OOM == [k |-> "oom", s |-> 1, n |-> 0, d |-> 0]

RECURSIVE GCD(_, _)
GCD(a, b) == IF b = 0 THEN a ELSE GCD(b, a % b)

RECURSIVE IsPow2(_)
IsPow2(d) == d = 1 \/ (d > 1 /\ d % 2 = 0 /\ IsPow2(d \div 2))

\* the double s * n / d, when it is exact and within MaxMag
MkFin(s, n, d) ==
  LET g == GCD(n, d) IN
  IF ~IsPow2(d \div g) \/ n \div g > MaxMag \/ d \div g > MaxMag THEN OOM
  ELSE Fin(s, n \div g, d \div g)

\* b^e, or MaxMag + 1 as soon as it exceeds MaxMag
RECURSIVE PowCap(_, _)
PowCap(b, e) ==
  IF e = 0 THEN 1
  ELSE LET r == PowCap(b, e - 1) IN
       IF r > MaxMag \/ r * b > MaxMag THEN MaxMag + 1 ELSE r * b

IsZero(v) == v.k = "fin" /\ v.n = 0
IsOne(v) == v = Fin(1, 1, 1)
IsInteger(v) == v.k = "fin" /\ v.d = 1
IsOddInteger(v) == IsInteger(v) /\ v.n % 2 = 1
Negate(v) == IF v.k \in {"fin", "inf"} THEN [v EXCEPT !.s = -v.s] ELSE v
Zero(s) == Fin(s, 0, 1)
Inf(s) == IF s = 1 THEN PInf ELSE NInf

\* lhs + rhs in IEEE 754 double arithmetic, round to nearest
DAdd(x, y) ==
  IF x.k = "nan" \/ y.k = "nan" THEN NaN
  ELSE IF x.k = "big" \/ y.k = "big" THEN OOM
  ELSE IF x.k = "inf" /\ y.k = "inf" THEN IF x.s = y.s THEN x ELSE NaN
  ELSE IF x.k = "inf" THEN x
  ELSE IF y.k = "inf" THEN y
  ELSE LET sum == x.s * x.n * y.d + y.s * y.n * x.d IN
       IF sum = 0 THEN Zero(IF x.s = -1 /\ y.s = -1 THEN -1 ELSE 1)
       ELSE IF sum < 0 THEN MkFin(-1, -sum, x.d * y.d)
       ELSE MkFin(1, sum, x.d * y.d)

DSub(x, y) == DAdd(x, Negate(y))

DMul(x, y) ==
  IF x.k = "nan" \/ y.k = "nan" THEN NaN
  ELSE IF x.k = "big" \/ y.k = "big" THEN OOM
  ELSE IF x.k = "inf" \/ y.k = "inf"
  THEN IF IsZero(x) \/ IsZero(y) THEN NaN ELSE Inf(x.s * y.s)
  ELSE MkFin(x.s * y.s, x.n * y.n, x.d * y.d)

\* lhs / rhs in IEEE 754 double arithmetic
DDiv(x, y) ==
  IF x.k = "nan" \/ y.k = "nan" THEN NaN
  ELSE IF IsZero(y) THEN IF IsZero(x) THEN NaN ELSE Inf(x.s * y.s)
  ELSE IF x.k = "big" \/ y.k = "big" THEN OOM
  ELSE IF x.k = "inf" THEN IF y.k = "inf" THEN NaN ELSE Inf(x.s * y.s)
  ELSE IF y.k = "inf" THEN Zero(x.s * y.s)
  ELSE MkFin(x.s * y.s, x.n * y.d, x.d * y.n)

\* std::pow(x, y) (C99 F.9.4.4)
DPow(x, y) ==
  IF IsZero(y) \/ IsOne(x) THEN Num(1)
  ELSE IF x.k = "nan" \/ y.k = "nan" THEN NaN
  ELSE IF x.k = "big" \/ y.k = "big" THEN OOM
  ELSE IF y.k = "inf"
  THEN IF x.k = "fin" /\ x.n = x.d THEN Num(1)
       ELSE IF x.k = "fin" /\ x.n < x.d
       THEN IF y.s = -1 THEN PInf ELSE Zero(1)
       ELSE IF y.s = -1 THEN Zero(1) ELSE PInf
  ELSE IF x.k = "inf"
  THEN IF y.s = -1
       THEN Zero(IF x.s = -1 /\ IsOddInteger(y) THEN -1 ELSE 1)
       ELSE Inf(IF x.s = -1 /\ IsOddInteger(y) THEN -1 ELSE 1)
  ELSE IF IsZero(x)
  THEN IF y.s = -1
       THEN Inf(IF IsOddInteger(y) THEN x.s ELSE 1)
       ELSE Zero(IF IsOddInteger(y) THEN x.s ELSE 1)
  ELSE IF ~IsInteger(y)
  THEN IF x.s = -1 THEN NaN ELSE OOM
  ELSE LET sign == IF x.s = -1 /\ IsOddInteger(y) THEN -1 ELSE 1
           num == PowCap(x.n, y.n)
           den == PowCap(x.d, y.n)
       IN IF num > MaxMag \/ den > MaxMag THEN OOM
          ELSE IF y.s = -1 THEN MkFin(sign, den, num)
          ELSE MkFin(sign, num, den)

(***************************************************************************)
(* Tokens (src/include/tokens.hpp, src/src/tokens.cpp).                    *)
(***************************************************************************)
\* enum class TokenType, with the value of each enumerator
TokenType ==
  [ERROR_TOKEN |-> -1, END_OF_FILE |-> 0, NEWLINE |-> 1, NUMBER |-> 2,
   IDENTIFIER |-> 3, OP_PLUS |-> 4, OP_MINUS |-> 5, OP_ASTERISK |-> 6,
   OP_SLASH |-> 7, OP_CARET |-> 8, OP_FUNC_SQRT |-> 9, OP_FUNC_LOG |-> 10,
   OP_FUNC_SIN |-> 11, OP_FUNC_COS |-> 12, OP_FUNC_TAN |-> 13,
   OP_FUNC_ARCSIN |-> 14, OP_FUNC_ARCCOS |-> 15, OP_FUNC_ARCTAN |-> 16,
   ASSIGN |-> 17, PAREN_L |-> 18, PAREN_R |-> 19]

TokenTypes == DOMAIN TokenType

\* the empty alternative of Token::TokenVariant (std::monostate)
NoNum == Fin(1, 0, 1)
NoIdent == ""

\* Token::Token(TokenType): a token without payload
Token(type) == [type |-> type, ident |-> NoIdent, num |-> NoNum]
\* Token::identifier
Token_identifier(str) == [type |-> "IDENTIFIER", ident |-> str, num |-> NoNum]
\* Token::number, the string already converted by std::stod
Token_number(v) == [type |-> "NUMBER", ident |-> NoIdent, num |-> v]

\* std::optional<int>
Some(v) == <<v>>
None == <<>>

get_binary_binding_power(tok) ==
  CASE tok.type \in {"OP_PLUS", "OP_MINUS"} -> Some(1)
    [] tok.type \in {"OP_ASTERISK", "OP_SLASH"} -> Some(2)
    [] tok.type = "OP_CARET" -> Some(3)
    [] OTHER -> None

\* a switch in which the labels of the functions are not reached
get_unary_binding_power_no_functions(tok) ==
  CASE tok.type \in {"OP_PLUS", "OP_MINUS"} -> Some(5)
    [] OTHER -> None

\* The case labels of the eight functions sit inside the block of OP_MINUS,
\* after its return: each label is still a label of the switch.
get_unary_binding_power(tok) ==
  CASE tok.type \in {"OP_PLUS", "OP_MINUS"} -> Some(5)
    [] tok.type \in {"OP_FUNC_SQRT", "OP_FUNC_LOG", "OP_FUNC_SIN", "OP_FUNC_COS",
                     "OP_FUNC_TAN", "OP_FUNC_ARCSIN", "OP_FUNC_ARCCOS",
                     "OP_FUNC_ARCTAN"} -> Some(4)
    [] OTHER -> None

is_unary_operator_token(tok) ==
  \/ tok.type = "OP_MINUS"
  \/ tok.type = "OP_PLUS"
  \/ /\ TokenType[tok.type] >= TokenType["OP_FUNC_SQRT"]
     /\ TokenType[tok.type] <= TokenType["OP_FUNC_ARCTAN"]

is_binary_operator_token(tok) ==
  /\ TokenType[tok.type] >= TokenType["OP_PLUS"]
  /\ TokenType[tok.type] <= TokenType["OP_CARET"]

is_right_associative(tok) == tok.type = "OP_CARET"

is_operator_token(tok) ==
  is_unary_operator_token(tok) \/ is_binary_operator_token(tok)

is_operand_token(tok) == tok.type \in {"NUMBER", "IDENTIFIER"}

(***************************************************************************)
(* Token stream (src/src/token_list.cpp).  m_tokens is the vector the      *)
(* class holds: the tokens in reverse order, the current token at back().  *)
(***************************************************************************)
Reverse(s) == [i \in 1..Len(s) |-> s[Len(s) + 1 - i]]
back(s) == s[Len(s)]
pop_back(s) == SubSeq(s, 1, Len(s) - 1)

\* What back() of an empty vector can read: the behaviour is undefined, the
\* value read has some TokenType or the read faults.
UBFault == "fault"
UBReads == TokenTypes \cup {UBFault}

\* TokenList::TokenList(std::vector<Token>&&) on a vector that is not empty
TokenList(tokens) ==
  Reverse(IF back(tokens).type # "END_OF_FILE"
          THEN Append(tokens, Token("END_OF_FILE"))
          ELSE tokens)

\* The constructor on the empty vector: back() is undefined there, `read`
\* is the type it reads.
TokenList_empty(read) ==
  Reverse(IF read # "END_OF_FILE" THEN <<Token("END_OF_FILE")>> ELSE <<>>)

at_end(s) == back(s).type = "END_OF_FILE"
peek(s) == back(s)
\* TokenList::next: the token returned, and the vector afterwards
next_token(s) == back(s)
\* a next that never pops
next_rest_stays(s) == s

\* a next that pops whatever the current token is
next_rest_always_pops(s) == pop_back(s)
next_rest(s) == IF ~at_end(s) THEN pop_back(s) ELSE s
\* TokenList::give_back: the token becomes the next one consumed
\* a give_back that puts the token behind every other
give_back_behind(s, tok) == <<tok>> \o s
give_back(s, tok) == Append(s, tok)

(***************************************************************************)
(* AST (src/src/syntax_tree.cpp).                                          *)
(***************************************************************************)
NoToken == [type |-> "NONE", ident |-> NoIdent, num |-> NoNum]
NoExpr == [type |-> "NONE", tok |-> NoToken]

\* OperandExpression::OperandExpression accepts the token
OperandExpression_valid(tok) == is_operand_token(tok)
\* BinOpExpression::BinOpExpression accepts the operator (children present)
BinOpExpression_valid(oper) == is_operator_token(oper)

Expression_operand(tok) == [type |-> "OPERAND", tok |-> tok]
Expression_bin_op(oper, lhs, rhs) ==
  [type |-> "BIN_OP", tok |-> oper, lhs |-> lhs, rhs |-> rhs]

(***************************************************************************)
(* The same nodes as objects.  heap[a] is the node at address a: its       *)
(* variant, its token and, for a BIN_OP, the addresses its unique_ptr      *)
(* children m_lhs and m_rhs hold; a destroyed node is FREE.                *)
(***************************************************************************)
nullptr == 0

Cell(type, tok, lhs, rhs) == [type |-> type, tok |-> tok, lhs |-> lhs, rhs |-> rhs]
Freed == Cell("FREE", NoToken, nullptr, nullptr)

\* the addresses of the nodes of the tree at a
RECURSIVE CellsOf(_, _)
CellsOf(h, a) ==
  IF a = nullptr THEN {}
  ELSE IF h[a].type = "BIN_OP"
  THEN {a} \cup CellsOf(h, h[a].lhs) \cup CellsOf(h, h[a].rhs)
  ELSE {a}

\* ~Expression: the node and, through its unique_ptr members, its subtrees
destroy(h, a) ==
  [i \in 1..Len(h) |-> IF i \in CellsOf(h, a) THEN Freed ELSE h[i]]

\* the tree at a, as a value
RECURSIVE TreeAt(_, _)
TreeAt(h, a) ==
  IF a = nullptr THEN NoExpr
  ELSE IF h[a].type = "BIN_OP"
  THEN Expression_bin_op(h[a].tok, TreeAt(h, h[a].lhs), TreeAt(h, h[a].rhs))
  ELSE IF h[a].type = "OPERAND" THEN Expression_operand(h[a].tok)
  ELSE NoExpr

\* a new node; its address is the length of the heap returned
new_operand(h, tok) == Append(h, Cell("OPERAND", tok, nullptr, nullptr))
new_bin_op(h, oper, lhs, rhs) == Append(h, Cell("BIN_OP", oper, lhs, rhs))

\* BinOpExpression::BinOpExpression throws std::invalid_argument
BinOpExpression_throws(oper, lhs, rhs) ==
  \/ ~BinOpExpression_valid(oper)
  \/ lhs = nullptr
  \/ rhs = nullptr

\* a copy of the root that holds the children of the original
Expression_clone_shares_children(h, a) == Append(h, h[a])

\* Expression::clone, OperandExpression::clone, BinOpExpression::clone: the
\* heap with the clone of the tree at a; its root is the last node
RECURSIVE Expression_clone(_, _)
Expression_clone(h, a) ==
  IF h[a].type = "OPERAND" THEN new_operand(h, h[a].tok)
  ELSE LET with_lhs == Expression_clone(h, h[a].lhs)
           with_rhs == Expression_clone(with_lhs, h[a].rhs)
       IN new_bin_op(with_rhs, h[a].tok, Len(with_lhs), Len(with_rhs))

\* a call on the AST: its name, its arguments, what it threw and the address
\* of the node it made
Call(name, oper, lhs, rhs, threw, node) ==
  [name |-> name, oper |-> oper, lhs |-> lhs, rhs |-> rhs, threw |-> threw,
   node |-> node]
NoCall == Call("none", NoToken, nullptr, nullptr, "", nullptr)
NoAst == heap = <<>> /\ held = {} /\ call = NoCall

(***************************************************************************)
(* Parser (src/src/parser.cpp).  A parse returns a record:                 *)
(*   k     "ok", "err" (a ParserError was thrown), "invalid_argument"      *)
(*         (std::invalid_argument was thrown) or "ub" (the stream was read *)
(*         while empty);                                                   *)
(*   expr  the expression, err the class of the error, tok its problem     *)
(*         token, paren the paren token of MismatchedParentheses;          *)
(*   rest  m_tokens when the call ended.                                   *)
(* uninit is the int read through an empty std::optional<int> at           *)
(* parser.cpp:66, an undefined value.                                      *)
(***************************************************************************)
ParseOk(expr, rest) ==
  [k |-> "ok", expr |-> expr, err |-> "", tok |-> NoToken, paren |-> NoToken,
   rest |-> rest]
ParseErr(err, tok, paren, rest) ==
  [k |-> "err", expr |-> NoExpr, err |-> err, tok |-> tok, paren |-> paren,
   rest |-> rest]
ParseUB(rest) ==
  [k |-> "ub", expr |-> NoExpr, err |-> "", tok |-> NoToken, paren |-> NoToken,
   rest |-> rest]
ParseInvalidArgument(rest) ==
  [k |-> "invalid_argument", expr |-> NoExpr, err |-> "", tok |-> NoToken,
   paren |-> NoToken, rest |-> rest]

\* values the undefined int takes in the model: below, between and above
\* the binding powers it is compared with
UninitInts == {-2, 0, 2, 4}

\* operator*() of the optional returned at parser.cpp:66
deref(opt, uninit) == IF opt = None THEN uninit ELSE opt[1]

RECURSIVE parse_expression_recursive(_, _, _)
RECURSIVE infix_loop(_, _, _, _)

\* prefix_case without the default case: a token that starts no expression
\* falls into the operand case
prefix_case_no_default(first_tok) ==
  IF first_tok.type = "PAREN_L" THEN "paren" ELSE "operand"

\* the switch on first_tok.type (parser.cpp:31-46): which case is taken
prefix_case(first_tok) ==
  CASE first_tok.type \in {"NUMBER", "IDENTIFIER"} -> "operand"
    [] first_tok.type = "PAREN_L" -> "paren"
    [] OTHER -> "default"

\* the cases of the switch on operator_tok.type that return lhs
\* (parser.cpp:54-58)
ends_expression(operator_tok) ==
  operator_tok.type \in {"END_OF_FILE", "NEWLINE", "PAREN_R"}

\* the default case throws ExpectedOperator (parser.cpp:59-63)
throws_expected_operator(operator_tok) == ~is_operator_token(operator_tok)

\* stops_binding with the same comparison for every operator: ^ groups to
\* the left
stops_binding_same_for_caret(current_binding_power, minimal_binding_power, operator_tok) ==
  current_binding_power <= minimal_binding_power

\* every token taken for the closing parenthesis
closes_paren_whatever(after_paren) == TRUE

\* after_paren.type() == TokenType::PAREN_R (parser.cpp:40)
closes_paren(after_paren) == after_paren.type = "PAREN_R"

\* the condition under which the loop stops binding to the right
\* (parser.cpp:67-70)
stops_binding(current_binding_power, minimal_binding_power, operator_tok) ==
  \/ /\ current_binding_power < minimal_binding_power
     /\ operator_tok.type = "OP_CARET"
  \/ /\ current_binding_power <= minimal_binding_power
     /\ operator_tok.type # "OP_CARET"

\* the while(true) loop of parse_expression_recursive, lhs already parsed
infix_loop(lhs, s, minimal_binding_power, uninit) ==
  LET operator_tok == peek(s) IN
  IF ends_expression(operator_tok)
  THEN ParseOk(lhs, s)
  ELSE IF throws_expected_operator(operator_tok)
  THEN ParseErr("ExpectedOperator", operator_tok, NoToken, s)
  ELSE
    \* get_binding_power() at parser.cpp:66 is the binary table
    LET current_binding_power ==
          deref(get_binary_binding_power(operator_tok), uninit)
    IN
    IF stops_binding(current_binding_power, minimal_binding_power, operator_tok)
    THEN ParseOk(lhs, s)
    ELSE
      LET rhs == parse_expression_recursive(next_rest(s), current_binding_power,
                                            uninit)
      IN
      IF rhs.k # "ok" THEN rhs
      ELSE IF ~BinOpExpression_valid(operator_tok)
      THEN ParseInvalidArgument(rhs.rest)
      ELSE infix_loop(Expression_bin_op(operator_tok, lhs, rhs.expr), rhs.rest,
                      minimal_binding_power, uninit)

parse_expression_recursive(s, minimal_binding_power, uninit) ==
  IF s = <<>> THEN ParseUB(s)
  ELSE
    LET first_tok == next_token(s)
        s1 == next_rest(s)
    IN
    IF prefix_case(first_tok) = "operand"
    THEN IF ~OperandExpression_valid(first_tok)
         THEN ParseInvalidArgument(s1)
         ELSE infix_loop(Expression_operand(first_tok), s1,
                         minimal_binding_power, uninit)
    ELSE IF prefix_case(first_tok) = "paren"
    THEN
      LET tmp == parse_expression_recursive(s1, 0, uninit) IN
      IF tmp.k # "ok" THEN tmp
      ELSE
        LET after_paren == next_token(tmp.rest)
            s2 == next_rest(tmp.rest)
        IN
        IF ~closes_paren(after_paren)
        THEN ParseErr("MismatchedParentheses", after_paren, first_tok, s2)
        ELSE infix_loop(tmp.expr, s2, minimal_binding_power, uninit)
    ELSE ParseErr("ExpectedToken", first_tok, NoToken, s1)

parse_expression(s, uninit) == parse_expression_recursive(s, -1, uninit)

(***************************************************************************)
(* Statements.  A statement parse returns the record of a parse plus       *)
(*   kind  "expression" or "assignment" (Statement::is_expression),        *)
(*   var   the identifier token of an assignment (Assignment::get_var).    *)
(***************************************************************************)
StmtOf(kind, var, r) ==
  [k |-> r.k, kind |-> IF r.k = "ok" THEN kind ELSE "none",
   var |-> IF r.k = "ok" THEN var ELSE NoToken,
   expr |-> r.expr, err |-> r.err, tok |-> r.tok, paren |-> r.paren,
   rest |-> r.rest]

NoStmt == StmtOf("none", NoToken, ParseErr("", NoToken, NoToken, <<>>)) 

parse_assignment(s, consumed_var_token, uninit) ==
  IF peek(s).type # "ASSIGN"
  THEN \* the TokenType converts to a Token through Token::Token(TokenType),
       \* which throws for NUMBER and IDENTIFIER
       IF peek(s).type \in {"NUMBER", "IDENTIFIER"}
       THEN StmtOf("none", NoToken, ParseInvalidArgument(s))
       ELSE StmtOf("none", NoToken,
                   ParseErr("ExpectedToken", Token(peek(s).type), NoToken, s))
  ELSE
    LET r == parse_expression(next_rest(s), uninit) IN
    IF r.k = "ok" /\ consumed_var_token.type # "IDENTIFIER"
    THEN StmtOf("none", NoToken, ParseInvalidArgument(r.rest))
    ELSE StmtOf("assignment", consumed_var_token, r)

\* parse_next_statement that does not give the identifier back
parse_next_statement_no_give_back(s, uninit) ==
  IF s = <<>> THEN StmtOf("none", NoToken, ParseUB(s))
  ELSE IF peek(s).type # "IDENTIFIER"
  THEN StmtOf("expression", NoToken, parse_expression(s, uninit))
  ELSE
    IF peek(next_rest(s)).type # "ASSIGN"
    THEN StmtOf("expression", NoToken, parse_expression(next_rest(s), uninit))
    ELSE parse_assignment(next_rest(s), next_token(s), uninit)

parse_next_statement(s, uninit) ==
  IF s = <<>> THEN StmtOf("none", NoToken, ParseUB(s))
  ELSE IF peek(s).type # "IDENTIFIER"
  THEN StmtOf("expression", NoToken, parse_expression(s, uninit))
  ELSE
    LET first_tok == next_token(s)
        s1 == next_rest(s)
    IN
    IF peek(s1).type # "ASSIGN"
    THEN StmtOf("expression", NoToken,
                parse_expression(give_back(s1, first_tok), uninit))
    ELSE parse_assignment(s1, first_tok, uninit)

(***************************************************************************)
(* Symbol table (src/src/symbol_table.cpp): m_vars, a map from name to     *)
(* double, modelled as a function whose domain is the set of keys.         *)
(***************************************************************************)
SymbolTable ==
  [pi |-> Big(1), euler |-> Big(2), phi |-> Big(3), eulerMascheroni |-> Big(4)]

SymbolTable_get(m_vars, ident) ==
  IF ident.ident \in DOMAIN m_vars THEN Some(m_vars[ident.ident]) ELSE None

\* std::map::insert in place of operator[]: an entry that exists is kept
SymbolTable_set_keeps_entry(m_vars, ident, value) ==
  [name \in DOMAIN m_vars \cup {ident.ident} |->
     IF name \in DOMAIN m_vars THEN m_vars[name] ELSE value]

SymbolTable_set(m_vars, ident, value) ==
  [name \in DOMAIN m_vars \cup {ident.ident} |->
     IF name = ident.ident THEN value ELSE m_vars[name]]

\* the constants are re-seeded, the variables of the user are kept
SymbolTable_reset_keeps_variables(m_vars) ==
  [name \in DOMAIN m_vars \cup DOMAIN SymbolTable |->
     IF name \in DOMAIN SymbolTable THEN SymbolTable[name] ELSE m_vars[name]]

SymbolTable_reset(m_vars) == SymbolTable

\* a merge in which the predefined constants win over the entries of map
SymbolTable_from_map_constants_win(map) ==
  [name \in DOMAIN map \cup DOMAIN SymbolTable |->
     IF name \in DOMAIN SymbolTable THEN SymbolTable[name] ELSE map[name]]

\* map.merge(output.m_vars) moves into map the constants whose names map does
\* not have; map then becomes the m_vars of the table returned
SymbolTable_from_map(map) ==
  [name \in DOMAIN map \cup DOMAIN SymbolTable |->
     IF name \in DOMAIN map THEN map[name] ELSE SymbolTable[name]]

(***************************************************************************)
(* Evaluator (src/src/syntax_tree.cpp).  An evaluation returns a record:   *)
(*   k = "val"  the double v;                                              *)
(*   k = "err"  an EvalError of class err was thrown, expr its problem     *)
(*              expression;                                                *)
(*   k = "ub"   __builtin_unreachable() was reached;                       *)
(*   k = "oom"  the result is outside the doubles the model carries.       *)
(***************************************************************************)
EvVal(v) == [k |-> "val", v |-> v, err |-> "", expr |-> NoExpr, ub |-> FALSE]
EvErr(err, expr) ==
  [k |-> "err", v |-> NaN, err |-> err, expr |-> expr, ub |-> FALSE]
EvUB == [k |-> "ub", v |-> NaN, err |-> "", expr |-> NoExpr, ub |-> TRUE]
EvOOM == [k |-> "oom", v |-> NaN, err |-> "", expr |-> NoExpr, ub |-> FALSE]
NoEval == [k |-> "none", v |-> NaN, err |-> "", expr |-> NoExpr, ub |-> FALSE]

\* What reaching __builtin_unreachable() at syntax_tree.cpp:169 does: the
\* behaviour is undefined; the function faults, or returns whatever the
\* return register holds.
Fault == [k |-> "fault", s |-> 1, n |-> 0, d |-> 0]
UninitDoubles == {Num(0), Num(1), NaN}

\* Expression::clone, OperandExpression::clone, BinOpExpression::clone
RECURSIVE clone(_)
clone(e) ==
  IF e.type = "OPERAND" THEN Expression_operand(e.tok)
  ELSE Expression_bin_op(e.tok, clone(e.lhs), clone(e.rhs))

\* what evaluate returns once a double has been computed
Computed(v) == IF v.k = "oom" THEN EvOOM ELSE EvVal(v)

\* a test that only +0 passes
is_zero_divisor_positive_only(rhs_value) == rhs_value = Zero(1)

\* rhs_value == 0.0 || rhs_value == -0.0
is_zero_divisor(rhs_value) == IsZero(rhs_value)

\* the switch of BinOpExpression::evaluate, both operands evaluated; unreach
\* is what the default case does
apply_operator(e, lhs_value, rhs_value, unreach) ==
  CASE e.tok.type = "OP_PLUS" -> Computed(DAdd(lhs_value, rhs_value))
    [] e.tok.type = "OP_MINUS" -> Computed(DSub(lhs_value, rhs_value))
    [] e.tok.type = "OP_ASTERISK" -> Computed(DMul(lhs_value, rhs_value))
    [] e.tok.type = "OP_SLASH" ->
         IF is_zero_divisor(rhs_value) THEN EvErr("DivideByZero", clone(e))
         ELSE Computed(DDiv(lhs_value, rhs_value))
    [] e.tok.type = "OP_CARET" ->
         LET result == DPow(lhs_value, rhs_value) IN
         IF result.k = "nan" THEN EvErr("ComplexResult", clone(e))
         ELSE Computed(result)
    [] OTHER -> IF unreach = Fault THEN EvUB
                ELSE [EvVal(unreach) EXCEPT !.ub = TRUE]

\* an absent name read as 0
OperandExpression_evaluate_absent_is_zero(e, m_vars) ==
  IF e.tok.type = "NUMBER" THEN EvVal(e.tok.num)
  ELSE LET maybe_val == SymbolTable_get(m_vars, e.tok) IN
       IF maybe_val # None THEN EvVal(maybe_val[1]) ELSE EvVal(Num(0))

\* OperandExpression::evaluate
OperandExpression_evaluate(e, m_vars) ==
  IF e.tok.type = "NUMBER" THEN EvVal(e.tok.num)
  ELSE LET maybe_val == SymbolTable_get(m_vars, e.tok) IN
       IF maybe_val # None THEN EvVal(maybe_val[1])
       ELSE EvErr("UndefinedVariable", clone(e))

\* the operands evaluated right to left
RECURSIVE evaluate_rhs_first(_, _, _)
evaluate_rhs_first(e, m_vars, unreach) ==
  IF e.type = "OPERAND" THEN OperandExpression_evaluate(e, m_vars)
  ELSE LET rhs_value == evaluate_rhs_first(e.rhs, m_vars, unreach) IN
       IF rhs_value.k # "val" THEN rhs_value
       ELSE LET lhs_value == evaluate_rhs_first(e.lhs, m_vars, unreach) IN
            IF lhs_value.k # "val"
            THEN [lhs_value EXCEPT !.ub = @ \/ rhs_value.ub]
            ELSE [apply_operator(e, lhs_value.v, rhs_value.v, unreach)
                    EXCEPT !.ub = @ \/ lhs_value.ub \/ rhs_value.ub]

\* Expression::evaluate and BinOpExpression::evaluate; the field ub tells
\* whether the unreachable default case was reached on the way
RECURSIVE evaluate(_, _, _)
evaluate(e, m_vars, unreach) ==
  IF e.type = "OPERAND" THEN OperandExpression_evaluate(e, m_vars)
  ELSE LET lhs_value == evaluate(e.lhs, m_vars, unreach) IN
       IF lhs_value.k # "val" THEN lhs_value
       ELSE LET rhs_value == evaluate(e.rhs, m_vars, unreach) IN
            IF rhs_value.k # "val"
            THEN [rhs_value EXCEPT !.ub = @ \/ lhs_value.ub]
            ELSE [apply_operator(e, lhs_value.v, rhs_value.v, unreach)
                    EXCEPT !.ub = @ \/ lhs_value.ub \/ rhs_value.ub]

\* the entry made before the right-hand side is evaluated
Assignment_execute_entry_first(var, rhs, m_vars, unreach) ==
  LET assign_val == evaluate(rhs, m_vars, unreach) IN
  [ev |-> assign_val, m_vars |-> SymbolTable_set(m_vars, var, assign_val.v)]

\* Assignment::execute: the evaluation, and m_vars afterwards
Assignment_execute(var, rhs, m_vars, unreach) ==
  LET assign_val == evaluate(rhs, m_vars, unreach) IN
  [ev |-> assign_val,
   m_vars |-> IF assign_val.k = "val"
              THEN SymbolTable_set(m_vars, var, assign_val.v)
              ELSE m_vars]

(***************************************************************************)
(* Inputs: token vectors as the scanner hands them to the parser.          *)
(***************************************************************************)
N(i) == Token_number(Num(i))
I(str) == Token_identifier(str)
T(type) == Token(type)

FuncKinds ==
  {"OP_FUNC_SQRT", "OP_FUNC_LOG", "OP_FUNC_SIN", "OP_FUNC_COS", "OP_FUNC_TAN",
   "OP_FUNC_ARCSIN", "OP_FUNC_ARCCOS", "OP_FUNC_ARCTAN"}

\* every token kind, of the functions the first
Alphabet ==
  {Token(type) : type \in TokenTypes \ ({"NUMBER", "IDENTIFIER"} \cup FuncKinds)}
    \cup {N(1), I("a"), T("OP_FUNC_SQRT")}

\* every function token before, after and between operands
FuncProbes ==
  UNION {{<<T(f), N(1)>>, <<N(1), T(f)>>, <<N(1), T(f), N(2)>>} : f \in FuncKinds}

BoundedSeq(S, n) == UNION {[1..k -> S] : k \in 0..n}

BinaryOperators ==
  {T("OP_PLUS"), T("OP_MINUS"), T("OP_ASTERISK"), T("OP_SLASH"), T("OP_CARET")}

\* x0 op1 x1 ... opn xn with every choice of operators; the operands are the
\* identifier a, then the numbers 1 .. n, so that no two are alike
RECURSIVE ChainsOf(_)
ChainsOf(n) ==
  IF n = 0 THEN {<<I("a")>>}
  ELSE {c \o <<op, N(n)>> : c \in ChainsOf(n - 1), op \in BinaryOperators}
Chains == UNION {ChainsOf(n) : n \in 1..MaxOps}

\* the inputs of src/src/tests.cpp, as token vectors
TestSumaSimple == <<N(2), T("OP_PLUS"), N(2)>>
TestSumaComplicada ==
  <<N(1), T("OP_PLUS"), N(2), T("OP_PLUS"), N(3), T("OP_PLUS"), N(4),
    T("OP_PLUS"), N(5)>>
TestExpresionCompuesta ==
  <<T("PAREN_L"), N(3), T("OP_PLUS"), N(4), T("PAREN_R"), T("OP_ASTERISK"), N(5),
    T("OP_MINUS"), N(6), T("OP_SLASH"), N(2), T("OP_CARET"), N(2)>>
TestVariables ==
  <<T("PAREN_L"), I("a"), T("OP_PLUS"), N(1), T("OP_MINUS"), I("b"),
    T("OP_ASTERISK"), I("c"), T("PAREN_R"), T("OP_SLASH"), I("d")>>
TestAsignacion ==
  <<I("a"), T("ASSIGN"), N(2), T("OP_PLUS"), N(2), T("OP_ASTERISK"), I("b")>>
TestOperadoresUnarios ==
  <<T("OP_PLUS"), T("OP_MINUS"), T("PAREN_L"), N(2), T("OP_MINUS"), T("OP_MINUS"),
    N(2), T("PAREN_R"), T("OP_ASTERISK"), T("OP_PLUS"), N(3)>>
TestError1 ==
  <<I("a"), T("ASSIGN"), N(2), T("OP_PLUS"), T("ERROR_TOKEN")>>
TestError2 ==
  <<N(5), T("OP_PLUS"), N(3), T("OP_ASTERISK"), I("a"), T("OP_MINUS"),
    T("OP_CARET"), T("PAREN_L"), N(2)>>
TestError3 ==
  <<T("PAREN_L"), N(1), T("OP_PLUS"), I("a"), T("OP_ASTERISK"), I("b"),
    T("PAREN_R"), T("OP_SLASH"), I("c")>>
TestError4 ==
  <<I("a"), T("ASSIGN"), N(3), T("OP_SLASH"), T("PAREN_L"), N(1), T("OP_MINUS"),
    N(1), T("PAREN_R")>>
TestError5 ==
  <<I("i"), T("ASSIGN"), T("PAREN_L"), N(0), T("OP_MINUS"), N(1), T("PAREN_R"),
    T("OP_CARET"), Token_number(Half)>>
\* a + b * c, a - b - c, a ^ b ^ c
ExamplePlusTimes == <<I("a"), T("OP_PLUS"), I("b"), T("OP_ASTERISK"), I("c")>>
ExampleMinusMinus == <<I("a"), T("OP_MINUS"), I("b"), T("OP_MINUS"), I("c")>>
ExampleCaretCaret == <<I("a"), T("OP_CARET"), I("b"), T("OP_CARET"), I("c")>>
\* -a^2
NegatedPower == <<T("OP_MINUS"), I("a"), T("OP_CARET"), N(2)>>

Tests ==
  {TestSumaSimple, TestSumaComplicada, TestExpresionCompuesta, TestVariables,
   TestAsignacion, TestOperadoresUnarios, TestError1, TestError2, TestError3,
   TestError4, TestError5, NegatedPower, ExamplePlusTimes,
   ExampleMinusMinus, ExampleCaretCaret}

\* 1 ) 2, 2 + 3 ), ((((, a = b = 3, (a) = 3
UnmatchedThenOperand == <<N(1), T("PAREN_R"), N(2)>>
UnmatchedAtEnd == <<N(2), T("OP_PLUS"), N(3), T("PAREN_R")>>
OpenParens == <<T("PAREN_L"), T("PAREN_L"), T("PAREN_L"), T("PAREN_L")>>
AssignTwice == <<I("a"), T("ASSIGN"), I("b"), T("ASSIGN"), N(3)>>
AssignToParens ==
  <<T("PAREN_L"), I("a"), T("PAREN_R"), T("ASSIGN"), N(3)>>

Statements ==
  {UnmatchedThenOperand, UnmatchedAtEnd, OpenParens, AssignTwice,
   AssignToParens}

ParseInputs ==
  BoundedSeq(Alphabet, MaxLen) \cup Chains \cup FuncProbes \cup Tests
    \cup Statements

(***************************************************************************)
(* SpecParse: a Parser is constructed over a token vector and              *)
(* parse_next_statement is called once.                                    *)
(***************************************************************************)
NoOut == [text |-> "none", ev |-> NoEval]

InitParse ==
  /\ pc = "new"
  /\ toks \in ParseInputs
  /\ m_tokens = <<>>
  /\ stmt = NoStmt
  /\ symbols = SymbolTable
  /\ before = SymbolTable
  /\ out = NoOut
  /\ lines = 0
  /\ NoAst
  /\ frames = <<>>

\* Parser::Parser(std::vector<Token>&&), which constructs the TokenList
Construct ==
  /\ pc = "new"
  /\ IF toks # <<>>
     THEN /\ m_tokens' = TokenList(toks)
          /\ pc' = "ready"
     ELSE \E read \in UBReads :
            IF read = UBFault
            THEN pc' = "crashed" /\ m_tokens' = m_tokens
            ELSE pc' = "ready" /\ m_tokens' = TokenList_empty(read)
  /\ UNCHANGED <<symbols, before, toks, stmt, out, lines, ast, frames>>

\* parse_next_statement on a stream left empty by the constructor: every
\* read is back() of an empty vector again; it faults, or reads the
\* END_OF_FILE the constructor read there.
ParseOfEmpty(uninit) ==
  [parse_next_statement(<<Token("END_OF_FILE")>>, uninit) EXCEPT !.rest = <<>>]

\* the undefined int matters to a parse only if an operator token without a
\* binary binding power is in the vector
Uninits(v) ==
  IF \E i \in 1..Len(v) :
       is_operator_token(v[i]) /\ get_binary_binding_power(v[i]) = None
  THEN UninitInts ELSE {0}

Parse ==
  /\ pc = "ready"
  /\ \E uninit \in Uninits(toks) :
       IF m_tokens = <<>>
       THEN \/ pc' = "crashed" /\ UNCHANGED <<stmt, m_tokens>>
            \/ /\ pc' = "parsed"
               /\ stmt' = ParseOfEmpty(uninit)
               /\ m_tokens' = m_tokens
       ELSE /\ pc' = "parsed"
            /\ stmt' = parse_next_statement(m_tokens, uninit)
            /\ m_tokens' = stmt'.rest
  /\ UNCHANGED <<symbols, before, toks, out, lines, ast, frames>>

\* parse_assignment on a stream left empty by the constructor, as ParseOfEmpty
AssignmentOfEmpty(uninit) ==
  [parse_assignment(<<Token("END_OF_FILE")>>, I("a"), uninit)
     EXCEPT !.rest = <<>>]

\* parse_assignment(consumed_var_token), a public member, called on the new
\* parser with the identifier a as the token consumed
ParseAssignment ==
  /\ pc = "ready"
  /\ \E uninit \in Uninits(toks) :
       IF m_tokens = <<>>
       THEN \/ pc' = "crashed" /\ UNCHANGED <<stmt, m_tokens>>
            \/ /\ pc' = "assigned"
               /\ stmt' = AssignmentOfEmpty(uninit)
               /\ m_tokens' = m_tokens
       ELSE /\ pc' = "assigned"
            /\ stmt' = parse_assignment(m_tokens, I("a"), uninit)
            /\ m_tokens' = stmt'.rest
  /\ UNCHANGED <<symbols, before, toks, out, lines, ast, frames>>

NextParse == Construct \/ Parse \/ ParseAssignment

SpecParse == InitParse /\ [][NextParse]_vars

(***************************************************************************)
(* SpecTokens: a TokenList is constructed over a token vector and then     *)
(* read with peek, next and give_back in any order                         *)
(* (src/src/token_list.cpp).  stmt.kind holds the last call and stmt.tok   *)
(* the token it returned.                                                  *)
(***************************************************************************)
StreamAlphabet == {T("END_OF_FILE"), N(1), T("OP_PLUS")}
StreamInputs == BoundedSeq(StreamAlphabet, MaxLen)

Called(op, tok) == [NoStmt EXCEPT !.kind = op, !.tok = tok]

InitTokens ==
  /\ pc = "new"
  /\ toks \in StreamInputs
  /\ m_tokens = <<>>
  /\ stmt = NoStmt
  /\ symbols = SymbolTable
  /\ before = SymbolTable
  /\ out = NoOut
  /\ lines = 0
  /\ NoAst
  /\ frames = <<>>

\* TokenList::peek; on an empty m_tokens back() is undefined
TokenList_peek ==
  /\ pc = "ready"
  /\ IF m_tokens # <<>>
     THEN pc' = pc /\ stmt' = Called("peek", peek(m_tokens))
     ELSE \E read \in UBReads :
            IF read = UBFault THEN pc' = "crashed" /\ stmt' = stmt
            ELSE pc' = pc /\ stmt' = Called("peek", Token(read))
  /\ UNCHANGED <<symbols, before, toks, m_tokens, out, lines, ast, frames>>

\* TokenList::next; on an empty m_tokens back() is undefined, and so is the
\* pop_back that follows a read of anything but END_OF_FILE
TokenList_next ==
  /\ pc = "ready"
  /\ IF m_tokens # <<>>
     THEN /\ pc' = pc
          /\ stmt' = Called("next", next_token(m_tokens))
          /\ m_tokens' = next_rest(m_tokens)
     ELSE \E read \in UBReads :
            IF read = "END_OF_FILE"
            THEN /\ pc' = pc
                 /\ stmt' = Called("next", Token(read))
                 /\ m_tokens' = m_tokens
            ELSE pc' = "crashed" /\ UNCHANGED <<stmt, m_tokens>>
  /\ UNCHANGED <<symbols, before, toks, out, lines, ast, frames>>

\* TokenList::give_back, of any token, while the stream is short enough
TokenList_give_back ==
  /\ pc = "ready"
  /\ Len(m_tokens) <= MaxLen
  /\ \E tok \in StreamAlphabet :
       /\ m_tokens' = give_back(m_tokens, tok)
       /\ stmt' = Called("give_back", tok)
  /\ UNCHANGED <<pc, symbols, before, toks, out, lines, ast, frames>>

NextTokens == Construct \/ TokenList_peek \/ TokenList_next \/ TokenList_give_back

SpecTokens == InitTokens /\ [][NextTokens]_vars

\* the stream is not empty and its final element is END_OF_FILE
StreamEndsInEndOfInput ==
  /\ pc = "ready"
  /\ m_tokens # <<>>
  /\ m_tokens[1].type = "END_OF_FILE"

\* C17: after construction from any token vector (ending in EndOfInput, not
\* ending in it, empty) and after any sequence of peek, next and give_back
\* the stream is not empty and its final element is EndOfInput.
C17_StreamInvariant == pc # "new" => StreamEndsInEndOfInput

\* the same, for the vectors that are not empty
C17_StreamInvariantNotEmpty ==
  (pc # "new" /\ toks # <<>>) => StreamEndsInEndOfInput

(***************************************************************************)
(* Properties of the parser, checked under SpecParse.                      *)
(***************************************************************************)
Leaf(tok) == [type |-> "OPERAND", tok |-> tok]
Node(oper, lhs, rhs) == [type |-> "BIN_OP", tok |-> oper, lhs |-> lhs, rhs |-> rhs]

\* the tokens of a tree, left to right
RECURSIVE InOrder(_)
InOrder(e) ==
  IF e.type = "BIN_OP" THEN InOrder(e.lhs) \o <<e.tok>> \o InOrder(e.rhs)
  ELSE <<e.tok>>

\* the precedence levels the grammar is meant to have
Level(oper) ==
  CASE oper.type \in {"OP_PLUS", "OP_MINUS"} -> 1
    [] oper.type \in {"OP_ASTERISK", "OP_SLASH"} -> 2
    [] oper.type = "OP_CARET" -> 3

\* every node's children are grouped as precedence and associativity ask:
\* a left child binds tighter, or as tight under a left-grouping operator;
\* a right child binds tighter, or as tight under the right-grouping ^
RECURSIVE Grouped(_)
Grouped(e) ==
  \/ e.type = "OPERAND"
  \/ /\ e.type = "BIN_OP"
     /\ Grouped(e.lhs)
     /\ Grouped(e.rhs)
     /\ e.lhs.type = "BIN_OP" =>
          \/ Level(e.lhs.tok) > Level(e.tok)
          \/ Level(e.lhs.tok) = Level(e.tok) /\ e.tok.type # "OP_CARET"
     /\ e.rhs.type = "BIN_OP" =>
          \/ Level(e.rhs.tok) > Level(e.tok)
          \/ Level(e.rhs.tok) = Level(e.tok) /\ e.tok.type = "OP_CARET"

\* C1: a chain of operands and binary operators parses to the expression
\* statement whose tree reads back as the input and in which ^ binds tighter
\* than * /, these tighter than + -, with + - * / grouping to the left and ^
\* to the right; a + b * c is a + (b * c), a - b - c is (a - b) - c and
\* a ^ b ^ c is a ^ (b ^ c).
C1_Precedence ==
  (pc = "parsed"
   /\ toks \in Chains \cup {ExamplePlusTimes, ExampleMinusMinus, ExampleCaretCaret})
  => /\ stmt.k = "ok"
     /\ stmt.kind = "expression"
     /\ InOrder(stmt.expr) = toks
     /\ Grouped(stmt.expr)
     /\ toks = ExamplePlusTimes =>
          stmt.expr = Node(T("OP_PLUS"), Leaf(I("a")),
                           Node(T("OP_ASTERISK"), Leaf(I("b")), Leaf(I("c"))))
     /\ toks = ExampleMinusMinus =>
          stmt.expr = Node(T("OP_MINUS"),
                           Node(T("OP_MINUS"), Leaf(I("a")), Leaf(I("b"))),
                           Leaf(I("c")))
     /\ toks = ExampleCaretCaret =>
          stmt.expr = Node(T("OP_CARET"), Leaf(I("a")),
                           Node(T("OP_CARET"), Leaf(I("b")), Leaf(I("c"))))

\* a ^ b ^ c has been parsed, to a ^ (b ^ c)
C1_Witness ==
  /\ pc = "parsed"
  /\ toks = ExampleCaretCaret
  /\ stmt.expr = Node(T("OP_CARET"), Leaf(I("a")),
                      Node(T("OP_CARET"), Leaf(I("b")), Leaf(I("c"))))

\* The token vector as the parser reads it: up to an END_OF_FILE, one
\* appended when the vector does not end in it.
Fwd(v) ==
  IF v = <<>> THEN <<T("END_OF_FILE")>>
  ELSE IF v[Len(v)].type = "END_OF_FILE" THEN v
  ELSE v \o <<T("END_OF_FILE")>>

UnaryKinds ==
  {"OP_PLUS", "OP_MINUS", "OP_FUNC_SQRT", "OP_FUNC_LOG", "OP_FUNC_SIN",
   "OP_FUNC_COS", "OP_FUNC_TAN", "OP_FUNC_ARCSIN", "OP_FUNC_ARCCOS",
   "OP_FUNC_ARCTAN"}
BinaryKinds == {"OP_PLUS", "OP_MINUS", "OP_ASTERISK", "OP_SLASH", "OP_CARET"}

\* A left-to-right reading of the statement that knows only which place
\* each token stands in: "prefix" where an expression must start (at the
\* start, after a ParenL, after a binary operator), "infix" right after a
\* complete expression.  It returns the first token that is not an operand
\* or ParenL in prefix position, or not a binary operator or a matched
\* ParenR in infix position, with its position ("end": the expression ended)
\* and the number of parentheses open there.
RECURSIVE Scan(_, _, _, _)
Scan(f, i, depth, position) ==
  LET t == f[i] IN
  IF position = "prefix"
  THEN IF t.type \in {"NUMBER", "IDENTIFIER"} THEN Scan(f, i + 1, depth, "infix")
       ELSE IF t.type = "PAREN_L" THEN Scan(f, i + 1, depth + 1, "prefix")
       ELSE [pos |-> "prefix", tok |-> t, depth |-> depth]
  ELSE IF t.type \in {"END_OF_FILE", "NEWLINE"}
       THEN [pos |-> "end", tok |-> t, depth |-> depth]
       ELSE IF t.type = "PAREN_R"
       THEN IF depth > 0 THEN Scan(f, i + 1, depth - 1, "infix")
            ELSE [pos |-> "end", tok |-> t, depth |-> depth]
       ELSE IF t.type \in BinaryKinds THEN Scan(f, i + 1, depth, "prefix")
       ELSE [pos |-> "infix", tok |-> t, depth |-> depth]

StartsAssignment(v) ==
  Len(v) >= 2 /\ v[1].type = "IDENTIFIER" /\ v[2].type = "ASSIGN"

FirstStop(v) ==
  IF StartsAssignment(v) THEN Scan(Fwd(v), 3, 0, "prefix")
  ELSE Scan(Fwd(v), 1, 0, "prefix")

\* C2: a unary-operator token (Plus, Minus, a Func*) in prefix position is
\* consumed and yields a unary expression over the operand parsed after it:
\* `u x` parses to the unary node of u over the operand x, and
\* +-(2 - -2)*+3 parses as an expression statement.
C2_UnaryPrefix ==
  pc = "parsed" =>
    /\ (Len(toks) = 2 /\ toks[1].type \in UnaryKinds /\ is_operand_token(toks[2]))
         => /\ stmt.k = "ok"
            /\ stmt.kind = "expression"
            /\ stmt.expr.type = "UNARY_OP"
            /\ stmt.expr.tok = toks[1]
    /\ toks = TestOperadoresUnarios => stmt.k = "ok" /\ stmt.kind = "expression"

\* C3: -a^2 parses to the unary Minus node whose operand is the binary Caret
\* node.
C3_NegatedPower ==
  (pc = "parsed" /\ toks = NegatedPower)
  => /\ stmt.k = "ok"
     /\ stmt.expr.type = "UNARY_OP"
     /\ stmt.expr.tok.type = "OP_MINUS"
     /\ stmt.expr.operand.type = "BIN_OP"
     /\ stmt.expr.operand.tok.type = "OP_CARET"

\* C8: parse_next_statement dispatches on the first two tokens.  Identifier
\* then Assign: an assignment of that identifier, its right-hand side the
\* expression parsed from the remaining tokens.  Otherwise (an Identifier
\* not followed by Assign, given back; or no Identifier): the expression
\* statement parse_expression returns on the original stream, which is left
\* as parse_expression leaves it.  Errors are those of that expression.
C8_Dispatch ==
  (pc = "parsed" /\ toks # <<>>)
  => \E uninit \in UninitInts :
       LET s == TokenList(toks)
           r == IF StartsAssignment(toks)
                THEN parse_expression(SubSeq(s, 1, Len(s) - 2), uninit)
                ELSE parse_expression(s, uninit)
       IN /\ stmt.k = r.k
          /\ stmt.expr = r.expr
          /\ stmt.err = r.err
          /\ stmt.tok = r.tok
          /\ stmt.rest = r.rest
          /\ r.k = "ok" =>
               IF StartsAssignment(toks)
               THEN stmt.kind = "assignment" /\ stmt.var = toks[1]
               ELSE stmt.kind = "expression"

\* an identifier not followed by Assign was given back and leads the
\* expression that was parsed
C8_Witness ==
  /\ pc = "parsed"
  /\ Len(toks) >= 3
  /\ toks[1].type = "IDENTIFIER"
  /\ toks[2].type = "OP_PLUS"
  /\ stmt.k = "ok"
  /\ stmt.kind = "expression"
  /\ InOrder(stmt.expr)[1] = toks[1]

\* C9: in infix position every token that is not EndOfInput, Newline,
\* ParenR or a binary operator (Number, Identifier, ParenL, Assign, Error,
\* every Func*) makes the parser raise ExpectedOperator carrying that token.
C9_ExpectedOperator ==
  (pc = "parsed" /\ FirstStop(toks).pos = "infix")
  => /\ stmt.k = "err"
     /\ stmt.err = "ExpectedOperator"
     /\ stmt.tok = FirstStop(toks).tok

\* C10: in prefix position every token that is not Number, Identifier,
\* ParenL or a unary-operator kind raises ExpectedToken carrying that token;
\* 5 + 3 * a - ^ (2 raises it on the Caret, () on the ParenR and the empty
\* statement on EndOfInput.
C10_ExpectedToken ==
  pc = "parsed" =>
    /\ (FirstStop(toks).pos = "prefix" /\ FirstStop(toks).tok.type \notin UnaryKinds)
         => /\ stmt.k = "err"
            /\ stmt.err = "ExpectedToken"
            /\ stmt.tok = FirstStop(toks).tok
    /\ toks = TestError2 => stmt.err = "ExpectedToken" /\ stmt.tok = T("OP_CARET")
    /\ toks = <<T("PAREN_L"), T("PAREN_R")>> =>
         stmt.err = "ExpectedToken" /\ stmt.tok = T("PAREN_R")
    /\ toks \in {<<>>, <<T("END_OF_FILE")>>} =>
         stmt.err = "ExpectedToken" /\ stmt.tok = T("END_OF_FILE")

\* 5 + 3 * a - ^ (2 has been parsed and raised ExpectedToken on the Caret
C10_Witness ==
  /\ pc = "parsed"
  /\ toks = TestError2
  /\ stmt.err = "ExpectedToken"
  /\ stmt.tok = T("OP_CARET")

ParsedComplete ==
  /\ pc = "parsed"
  /\ \A i \in 1..Len(toks) : toks[i].type # "END_OF_FILE"
  /\ stmt.k = "ok"
  /\ stmt.kind = "expression"
  /\ stmt.rest = <<T("END_OF_FILE")>>

Parenthesized(v) == <<T("PAREN_L")>> \o v \o <<T("PAREN_R")>>

\* C12: when the token sequence E parses as a complete expression,
\* ParenL E ParenR parses to the same tree: the parentheses add no node and
\* change no grouping inside E.
C12_ParenIdentity ==
  ParsedComplete
  => \A uninit \in Uninits(toks) :
       LET r == parse_next_statement(TokenList(Parenthesized(toks)), uninit) IN
       /\ r.k = "ok"
       /\ r.kind = "expression"
       /\ r.expr = stmt.expr
       /\ r.rest = <<T("END_OF_FILE")>>

\* the same, for the token sequences that hold no function token
C12_ParenIdentityNoFunc ==
  (ParsedComplete /\ \A i \in 1..Len(toks) : toks[i].type \notin FuncKinds)
  => LET r == parse_next_statement(TokenList(Parenthesized(toks)), 0) IN
     /\ r.k = "ok"
     /\ r.kind = "expression"
     /\ r.expr = stmt.expr
     /\ r.rest = <<T("END_OF_FILE")>>

(***************************************************************************)
(* Spec: the loop of main (src/src/main.cpp).  The scanner is outside the  *)
(* model: a line is the token vector tokenize returns for it, which is not *)
(* empty.                                                                  *)
(***************************************************************************)
ReplOperands == {N(0), N(2), I("a")}
ReplOperators == {T("OP_MINUS"), T("OP_SLASH"), T("OP_CARET")}
\* x and x op y
ReplExprs ==
  {<<x>> : x \in ReplOperands}
    \cup {<<x, op, y>> : x \in ReplOperands, op \in ReplOperators,
                         y \in ReplOperands}

\* b = 3, pi = 1
SetB == <<I("b"), T("ASSIGN"), N(3)>>
SetPi == <<I("pi"), T("ASSIGN"), N(1)>>
\* 1 ) @, a = 1 ) @
ErrorAfterParen == <<N(1), T("PAREN_R"), T("ERROR_TOKEN")>>
AssignErrorAfterParen ==
  <<I("a"), T("ASSIGN"), N(1), T("PAREN_R"), T("ERROR_TOKEN")>>
\* 1 sqrt 1, a = 1 sqrt 1, (1 sqrt 1) / 0
FuncInfix == <<N(1), T("OP_FUNC_SQRT"), N(1)>>
AssignFuncInfix == <<I("a"), T("ASSIGN"), N(1), T("OP_FUNC_SQRT"), N(1)>>
FuncInfixOverZero ==
  <<T("PAREN_L"), N(1), T("OP_FUNC_SQRT"), N(1), T("PAREN_R"), T("OP_SLASH"),
    N(0)>>
\* c / 0, 1 / 0 + c, c + 1 / 0
UndefinedOverZero == <<I("c"), T("OP_SLASH"), N(0)>>
DivThenUndefined == <<N(1), T("OP_SLASH"), N(0), T("OP_PLUS"), I("c")>>
UndefinedThenDiv == <<I("c"), T("OP_PLUS"), N(1), T("OP_SLASH"), N(0)>>

ReplLines ==
  ReplExprs
    \cup {<<I("a"), T("ASSIGN")>> \o e : e \in ReplExprs}
    \cup Tests
    \cup {SetB, SetPi, ErrorAfterParen, AssignErrorAfterParen, FuncInfix,
          AssignFuncInfix, FuncInfixOverZero, UndefinedOverZero,
          DivThenUndefined, UndefinedThenDiv}

Init ==
  /\ pc = "prompt"
  /\ symbols = SymbolTable
  /\ before = SymbolTable
  /\ toks = <<>>
  /\ m_tokens = <<>>
  /\ stmt = NoStmt
  /\ out = NoOut
  /\ lines = 0
  /\ NoAst
  /\ frames = <<>>

\* std::getline fails: the loop ends and main returns 0
EndOfInput ==
  /\ pc = "prompt"
  /\ pc' = "exit"
  /\ UNCHANGED <<symbols, before, toks, m_tokens, stmt, out, lines, ast, frames>>

\* an empty line: nothing is parsed or printed
EmptyLine ==
  /\ pc = "prompt"
  /\ lines < MaxLines
  /\ lines' = lines + 1
  /\ pc' = "prompt"
  /\ before' = symbols
  /\ toks' = <<>>
  /\ m_tokens' = <<>>
  /\ stmt' = NoStmt
  /\ out' = NoOut
  /\ UNCHANGED <<symbols, ast, frames>>

\* the line exit or quit
Quit ==
  /\ pc = "prompt"
  /\ lines < MaxLines
  /\ lines' = lines + 1
  /\ pc' = "exit"
  /\ before' = symbols
  /\ toks' = <<>>
  /\ m_tokens' = <<>>
  /\ stmt' = NoStmt
  /\ out' = [text |-> "Saliendo...", ev |-> NoEval]
  /\ UNCHANGED <<symbols, ast, frames>>

\* what the unreachable default case can do in an evaluation of e
Unreachables(e, m_vars) ==
  IF evaluate(e, m_vars, Fault).ub THEN {Fault} \cup UninitDoubles
  ELSE {Fault}

\* the end of the try block after an evaluation ev: the table, and what is
\* printed (said when a value came back, the report of the catch otherwise)
Outcome(m_vars, ev, said) ==
  [m_vars |-> m_vars,
   crashed |-> ev.k = "ub",
   out |-> [text |-> CASE ev.k = "val" -> said
                       [] ev.k = "err" -> "ERROR DE EVALUACION"
                       [] OTHER -> "none",
            ev |-> ev]]

\* a catch that starts the table afresh
Caught_resets(m_vars, report) ==
  [m_vars |-> SymbolTable, crashed |-> FALSE,
   out |-> [text |-> report, ev |-> NoEval]]

\* the end of the try block when the parser threw: the report of the catch
Caught(m_vars, report) ==
  [m_vars |-> m_vars, crashed |-> FALSE,
   out |-> [text |-> report, ev |-> NoEval]]

\* The try block of main on the statement r that parse_next_statement
\* returned or threw: every outcome it can end in.
Executions(r, m_vars) ==
  IF r.k = "err"
  THEN {Caught(m_vars, "ERROR DE SINTAXIS")}
  ELSE IF r.k = "invalid_argument"
  THEN {Caught(m_vars, "ERROR")}
  ELSE IF r.kind = "expression"
  THEN {Outcome(m_vars, evaluate(r.expr, m_vars, g), "Resultado")
        : g \in Unreachables(r.expr, m_vars)}
  ELSE {LET x == Assignment_execute(r.var, r.expr, m_vars, g) IN
        Outcome(x.m_vars, x.ev, "guardada")
        : g \in Unreachables(r.expr, m_vars)}

\* lines 37-41 of main for every line: the token vector, and what
\* Parser(std::move(tokens)).parse_next_statement() returns or throws
Parsed ==
  {[tokens |-> line,
    statement |-> parse_next_statement(TokenList(line), uninit)]
   : line \in ReplLines, uninit \in UninitInts}

\* one statement: tokenize, parse, evaluate or execute, print; what is thrown
\* is caught and reported.  Lines whose value the model does not carry are
\* left out.
Statement ==
  /\ pc = "prompt"
  /\ lines < MaxLines
  /\ lines' = lines + 1
  /\ \E p \in Parsed :
       \E x \in Executions(p.statement, symbols) :
         /\ x.out.ev.k # "oom"
         /\ pc' = IF x.crashed THEN "crashed" ELSE "prompt"
         /\ before' = symbols
         /\ symbols' = x.m_vars
         /\ toks' = p.tokens
         /\ m_tokens' = p.statement.rest
         /\ stmt' = p.statement
         /\ out' = x.out
  /\ UNCHANGED <<ast, frames>>

Next == EndOfInput \/ EmptyLine \/ Quit \/ Statement

Spec == Init /\ [][Next]_vars

(***************************************************************************)
(* Properties of assignments and of the loop, checked under Spec.          *)
(***************************************************************************)
EvalErrors == {"UndefinedVariable", "DivideByZero", "ComplexResult"}

HasErrorToken(v) == \E i \in 1..Len(v) : v[i].type = "ERROR_TOKEN"

\* C4: when the right-hand side of an assignment raises an evaluation error
\* (UndefinedVariable, DivideByZero, ComplexResult), the symbol table after
\* Assignment::execute is the table before it: nothing added, removed or
\* changed.
C4_FailedAssignment ==
  (stmt.k = "ok" /\ stmt.kind = "assignment" /\ out.ev.k = "err")
  => /\ out.ev.err \in EvalErrors
     /\ symbols = before

\* i = (0 - 1) ^ 0.5 raised ComplexResult on a table that holds a user
\* variable, and left it as it was
C4_Witness ==
  /\ toks = TestError5
  /\ stmt.kind = "assignment"
  /\ out.ev.err = "ComplexResult"
  /\ "a" \in DOMAIN before
  /\ symbols = before

\* C5: when the right-hand side of the assignment a = <expr> evaluates to v,
\* get(a) right after Assignment::execute returns v, whether a was absent,
\* user-defined or predefined before; a = 2 + 2 * b with b = 3 gives
\* get(a) = 8.
C5_AssignedValue ==
  (stmt.k = "ok" /\ stmt.kind = "assignment" /\ out.ev.k = "val")
  => /\ SymbolTable_get(symbols, stmt.var) = Some(out.ev.v)
     /\ (toks = TestAsignacion /\ SymbolTable_get(before, I("b")) = Some(Num(3)))
          => SymbolTable_get(symbols, I("a")) = Some(Num(8))

\* a = 2 + 2 * b has been executed with b = 3, and a is 8
C5_Witness ==
  /\ toks = TestAsignacion
  /\ SymbolTable_get(before, I("b")) = Some(Num(3))
  /\ out.text = "guardada"
  /\ SymbolTable_get(symbols, I("a")) = Some(Num(8))

\* C6: over any sequence of lines the one symbol table changes only at a line
\* that parses as an assignment and whose right-hand side evaluates to a
\* value; expression statements, parser errors and evaluation errors leave it
\* as it is.
C6_TableChanges ==
  [][symbols' # symbols =>
       /\ stmt'.k = "ok"
       /\ stmt'.kind = "assignment"
       /\ out'.ev.k = "val"]_vars

\* a line has changed a table that a line before it had changed already
C6_Witness ==
  /\ lines >= 2
  /\ symbols # before
  /\ before # SymbolTable
  /\ stmt.kind = "assignment"
  /\ out.text = "guardada"

\* C7: a line whose tokens hold an Error token is refused: it is not handed
\* to parse_next_statement, prints neither Resultado nor the confirmation of
\* a saved variable, and leaves the symbol table as it is.
C7_RefusesErrorToken ==
  HasErrorToken(toks)
  => /\ stmt = NoStmt
     /\ out.text \notin {"Resultado", "guardada"}
     /\ symbols = before

(***************************************************************************)
(* Properties of the evaluator, checked under Spec on the trees the parser *)
(* built from the lines and the tables the session reached.                *)
(***************************************************************************)
\* the nodes of a tree
RECURSIVE Subtrees(_)
Subtrees(e) ==
  IF e.type = "BIN_OP" THEN {e} \cup Subtrees(e.lhs) \cup Subtrees(e.rhs)
  ELSE {e}

\* the nodes of the statement that was parsed from the current line
StatementNodes == IF stmt.k = "ok" THEN Subtrees(stmt.expr) ELSE {}

\* evaluation on the table the statement met, the default case never taken
Value(e) == evaluate(e, before, Fault)

\* C13, the report: the problem expression of a DivideByZero that a line
\* reports is a division node of the line whose right operand is zero
C13_Reported ==
  (out.ev.k = "err" /\ out.ev.err = "DivideByZero")
  => /\ out.ev.expr \in StatementNodes
     /\ out.ev.expr.type = "BIN_OP"
     /\ out.ev.expr.tok.type = "OP_SLASH"
     /\ IsZero(Value(out.ev.expr.rhs).v)

\* C13: a Slash node whose right operand evaluates to zero of either sign
\* raises DivideByZero whose problem expression is that whole division node;
\* when the right operand is not zero the node evaluates to lhs / rhs.
C13_DivideByZero ==
  /\ C13_Reported
  /\ \A e \in StatementNodes :
       (e.type = "BIN_OP" /\ e.tok.type = "OP_SLASH"
          /\ Value(e.lhs).k = "val" /\ Value(e.rhs).k = "val")
       => /\ IF IsZero(Value(e.rhs).v)
             THEN Value(e) = EvErr("DivideByZero", e)
             ELSE Value(e) = Computed(DDiv(Value(e.lhs).v, Value(e.rhs).v))
          /\ e = stmt.expr => out.ev = Value(e)

\* a division by -0 has been reported as DivideByZero on the division node
C13_Witness ==
  /\ stmt.k = "ok"
  /\ stmt.expr.type = "BIN_OP"
  /\ stmt.expr.tok.type = "OP_SLASH"
  /\ Value(stmt.expr.rhs) = EvVal(Zero(-1))
  /\ out.text = "ERROR DE EVALUACION"
  /\ out.ev = EvErr("DivideByZero", stmt.expr)

\* C14: an Identifier operand whose name is absent from the symbol table
\* raises UndefinedVariable whose problem expression is that operand; a
\* present identifier evaluates to its stored value and a Number operand to
\* its payload; (1 + a * b) / c with only a and b defined reports the
\* operand c.
C14_UndefinedVariable ==
  /\ \A e \in StatementNodes :
       e.type = "OPERAND"
       => /\ Value(e) =
               IF e.tok.type = "NUMBER" THEN EvVal(e.tok.num)
               ELSE IF e.tok.ident \in DOMAIN before
               THEN EvVal(before[e.tok.ident])
               ELSE EvErr("UndefinedVariable", e)
          /\ e = stmt.expr => out.ev = Value(e)
  /\ (out.ev.k = "err" /\ out.ev.err = "UndefinedVariable")
     => /\ out.ev.expr \in StatementNodes
        /\ out.ev.expr.type = "OPERAND"
        /\ out.ev.expr.tok.type = "IDENTIFIER"
        /\ out.ev.expr.tok.ident \notin DOMAIN before
  /\ (toks = TestError3 /\ {"a", "b"} \subseteq DOMAIN before
        /\ "c" \notin DOMAIN before)
     => out.ev = EvErr("UndefinedVariable", Leaf(I("c")))

\* (1 + a * b) / c has been evaluated with a and b defined, and reported c
C14_Witness ==
  /\ toks = TestError3
  /\ {"a", "b"} \subseteq DOMAIN before
  /\ out.text = "ERROR DE EVALUACION"
  /\ out.ev = EvErr("UndefinedVariable", Leaf(I("c")))

\* C15: a binary node evaluates its lhs, then its rhs, then applies its
\* operator, so the error of a whole expression is that of the first failing
\* node from left to right: when lhs raises, that error is the node's even if
\* rhs would raise too or the node would raise DivideByZero; c / 0 with c
\* undefined reports UndefinedVariable and 1/0 + c reports DivideByZero.
C15_EvaluationOrder ==
  /\ \A e \in StatementNodes :
       e.type = "BIN_OP"
       => /\ Value(e.lhs).k = "err" => Value(e) = Value(e.lhs)
          /\ (Value(e.lhs).k = "val" /\ Value(e.rhs).k = "err")
               => Value(e) = Value(e.rhs)
          /\ (e = stmt.expr /\ Value(e).k = "err") => out.ev = Value(e)
  /\ (toks = UndefinedOverZero /\ "c" \notin DOMAIN before)
     => out.ev = EvErr("UndefinedVariable", Leaf(I("c")))
  /\ toks = DivThenUndefined
     => out.ev = EvErr("DivideByZero", Node(T("OP_SLASH"), Leaf(N(1)), Leaf(N(0))))
  /\ (toks = UndefinedThenDiv /\ "c" \notin DOMAIN before)
     => out.ev = EvErr("UndefinedVariable", Leaf(I("c")))

\* 1/0 + c has reported the division, c + 1/0 would report c
C15_Witness ==
  /\ toks = DivThenUndefined
  /\ "c" \notin DOMAIN before
  /\ out.text = "ERROR DE EVALUACION"
  /\ out.ev.err = "DivideByZero"
  /\ Value(stmt.expr.rhs).err = "UndefinedVariable"

\* C16: an operation whose result is NaN raises ComplexResult with the
\* current node, so an evaluation that succeeds never returns NaN, while
\* infinities may propagate: inf - inf, 0 * inf and inf / inf raise
\* ComplexResult as (0 - 1) ^ 0.5 does.
C16_NaNRaises ==
  \A e \in StatementNodes :
    (e.type = "BIN_OP" /\ e.tok.type \in BinaryKinds
       /\ Value(e.lhs).k = "val" /\ Value(e.lhs).v # NaN
       /\ Value(e.rhs).k = "val" /\ Value(e.rhs).v # NaN)
    => /\ Value(e).k = "val" => Value(e).v # NaN
       /\ (e = stmt.expr /\ out.ev.k = "val") => out.ev.v # NaN

\* the node invariants: an operand holds a NUMBER or an IDENTIFIER, a binary
\* node one of the five binary operators and both children
NodeInvariant(e) ==
  IF e.type = "OPERAND" THEN e.tok.type \in {"NUMBER", "IDENTIFIER"}
  ELSE /\ e.type = "BIN_OP"
       /\ e.tok.type \in BinaryKinds
       /\ e.lhs.type \in {"OPERAND", "BIN_OP"}
       /\ e.rhs.type \in {"OPERAND", "BIN_OP"}

\* C29: every AST the parser returns satisfies the node invariants, so that
\* for every token sequence, a function token in infix position included,
\* its evaluation never reaches the unreachable default case of the
\* operator switch.
C29_NodeInvariants ==
  /\ \A e \in StatementNodes : NodeInvariant(e)
  /\ stmt.k = "ok" => ~out.ev.ub

\* the same, for the lines that hold no function token
C29_NodeInvariantsNoFunc ==
  (\A i \in 1..Len(toks) : toks[i].type \notin FuncKinds)
  => /\ \A e \in StatementNodes : NodeInvariant(e)
     /\ stmt.k = "ok" => ~out.ev.ub

(***************************************************************************)
(* SpecAst: a caller builds Expression objects with Expression::operand    *)
(* and Expression::bin_op, clones them, move-assigns one to another and    *)
(* lets them go out of scope (src/src/syntax_tree.cpp).                    *)
(***************************************************************************)
AstTokens ==
  {N(1), T("OP_PLUS"), T("OP_FUNC_SQRT"), T("ASSIGN"), T("PAREN_L")}

InitAst ==
  /\ pc = "ast"
  /\ toks = <<>>
  /\ m_tokens = <<>>
  /\ stmt = NoStmt
  /\ symbols = SymbolTable
  /\ before = SymbolTable
  /\ out = NoOut
  /\ lines = 0
  /\ NoAst
  /\ frames = <<>>

\* Expression::operand(tok)
Ast_operand ==
  /\ Len(heap) < MaxCells
  /\ \E tok \in AstTokens :
       IF OperandExpression_valid(tok)
       THEN /\ heap' = new_operand(heap, tok)
            /\ held' = held \cup {Len(heap')}
            /\ call' = Call("operand", tok, nullptr, nullptr, "", Len(heap'))
       ELSE /\ call' = Call("operand", tok, nullptr, nullptr,
                            "invalid_argument", nullptr)
            /\ UNCHANGED <<heap, held>>
  /\ UNCHANGED program

\* Expression::bin_op(oper, lhs, rhs), each child a held object moved into a
\* unique_ptr or a null pointer; when the constructor throws, the children
\* it was given are destroyed with it
Ast_bin_op ==
  /\ Len(heap) < MaxCells
  /\ \E oper \in AstTokens, lhs \in held \cup {nullptr}, rhs \in held \cup {nullptr} :
       /\ lhs = nullptr \/ lhs # rhs
       /\ IF BinOpExpression_throws(oper, lhs, rhs)
          THEN /\ heap' = destroy(destroy(heap, lhs), rhs)
               /\ held' = held \ {lhs, rhs}
               /\ call' = Call("bin_op", oper, lhs, rhs, "invalid_argument",
                               nullptr)
          ELSE /\ heap' = new_bin_op(heap, oper, lhs, rhs)
               /\ held' = (held \ {lhs, rhs}) \cup {Len(heap')}
               /\ call' = Call("bin_op", oper, lhs, rhs, "", Len(heap'))
  /\ UNCHANGED program

\* e.clone(), e a held object
Ast_clone ==
  /\ \E e \in held :
       /\ Len(heap) + Cardinality(CellsOf(heap, e)) <= MaxCells
       /\ heap' = Expression_clone(heap, e)
       /\ held' = held \cup {Len(heap')}
       /\ call' = Call("clone", NoToken, e, nullptr, "", Len(heap'))
  /\ UNCHANGED program

\* e, a held object, goes out of scope
Ast_drop ==
  /\ \E e \in held :
       /\ heap' = destroy(heap, e)
       /\ held' = held \ {e}
       /\ call' = Call("drop", NoToken, e, nullptr, "", nullptr)
  /\ UNCHANGED program

\* e = std::move(other), both held objects: the tree of e is destroyed and
\* replaced by the tree of other, which stays where it was allocated
Ast_assign ==
  /\ \E e \in held, other \in held :
       /\ e # other
       /\ heap' = destroy(heap, e)
       /\ held' = held \ {e}
       /\ call' = Call("assign", NoToken, e, other, "", nullptr)
  /\ UNCHANGED program

NextAst == Ast_operand \/ Ast_bin_op \/ Ast_clone \/ Ast_drop \/ Ast_assign

SpecAst == InitAst /\ [][NextAst]_vars

(***************************************************************************)
(* Properties of the AST objects, checked under SpecAst.                   *)
(***************************************************************************)

\* C18: a binary node built with an operator token that is not a binary
\* operator (a Func* token, Assign, ParenL, a Number), or with an absent
\* child, fails with std::invalid_argument and constructs no node.
C18_RejectsNonBinary ==
  /\ call.name = "bin_op"
  /\ \/ ~is_binary_operator_token(call.oper)
     \/ call.lhs = nullptr
     \/ call.rhs = nullptr
  => call.threw = "invalid_argument" /\ call.node = nullptr

\* the part of C18 that the constructor does enforce: a token that is no
\* operator at all, or an absent child
C18_RejectsNonOperator ==
  /\ call.name = "bin_op"
  /\ \/ ~is_operator_token(call.oper)
     \/ call.lhs = nullptr
     \/ call.rhs = nullptr
  => call.threw = "invalid_argument" /\ call.node = nullptr

\* C19: e.clone() is structurally equal to e (same variant, equal tokens,
\* recursively equal children) and shares no node with it: a step that drops
\* or replaces a tree leaves every other held tree as it was.
C19_CloneIsDeep ==
  [][/\ call'.name = "clone" =>
          /\ TreeAt(heap', call'.node) = TreeAt(heap, call'.lhs)
          /\ TreeAt(heap', call'.lhs) = TreeAt(heap, call'.lhs)
          /\ CellsOf(heap', call'.node) \cap CellsOf(heap', call'.lhs) = {}
     /\ \A a \in held \cap held' :
          TreeAt(heap', a) = TreeAt(heap, a)]_vars

\* a binary node has been cloned, and the caller holds both trees
C19_Witness ==
  /\ call.name = "clone"
  /\ heap[call.lhs].type = "BIN_OP"
  /\ {call.lhs, call.node} \subseteq held
  /\ heap[call.node].type = "BIN_OP"

(***************************************************************************)
(* SpecSymbols: a caller sets entries of a default-constructed             *)
(* SymbolTable and resets it (src/src/symbol_table.cpp).                   *)
(***************************************************************************)
SetIdents == {I("a"), I("b"), I("pi"), I("euler")}
SetValues == {Num(0), Num(1), Num(2)}

InitSymbols ==
  /\ pc = "symbols"
  /\ toks = <<>>
  /\ m_tokens = <<>>
  /\ stmt = NoStmt
  /\ symbols = SymbolTable
  /\ before = SymbolTable
  /\ out = NoOut
  /\ lines = 0
  /\ NoAst
  /\ frames = <<>>

\* symbols.set(ident, value)
Symbols_set ==
  /\ \E ident \in SetIdents, value \in SetValues :
       /\ symbols' = SymbolTable_set(symbols, ident, value)
       /\ call' = Call("set", ident, nullptr, nullptr, "", nullptr)
  /\ before' = symbols
  /\ UNCHANGED <<pc, toks, m_tokens, stmt, out, lines, heap, held,
                 frames>>

\* symbols.reset()
Symbols_reset ==
  /\ symbols' = SymbolTable_reset(symbols)
  /\ call' = Call("reset", NoToken, nullptr, nullptr, "", nullptr)
  /\ before' = symbols
  /\ UNCHANGED <<pc, toks, m_tokens, stmt, out, lines, heap, held,
                 frames>>

\* the maps given to from_map: any of a, pi and euler, with any values
Maps == UNION {[names -> SetValues] : names \in SUBSET {"a", "pi", "euler"}}

\* symbols = SymbolTable::from_map(map); before keeps the map given
Symbols_from_map ==
  /\ \E map \in Maps :
       /\ symbols' = SymbolTable_from_map(map)
       /\ before' = map
  /\ call' = Call("from_map", NoToken, nullptr, nullptr, "", nullptr)
  /\ UNCHANGED <<pc, toks, m_tokens, stmt, out, lines, heap, held,
                 frames>>

NextSymbols == Symbols_set \/ Symbols_reset \/ Symbols_from_map

SpecSymbols == InitSymbols /\ [][NextSymbols]_vars

\* C20: after any sequence of set operations, reset() leaves the table equal
\* to a default-constructed one: exactly pi, euler, phi and eulerMascheroni,
\* each with its default value, and no entry of the user.
C20_ResetRestoresDefaults ==
  call.name = "reset" =>
    /\ DOMAIN symbols = {"pi", "euler", "phi", "eulerMascheroni"}
    /\ \A name \in DOMAIN symbols : symbols[name] = SymbolTable[name]
    /\ symbols = SymbolTable

\* reset has been called on a table where pi and euler were overwritten and
\* two variables had been defined
C20_Witness ==
  /\ call.name = "reset"
  /\ {"a", "b"} \subseteq DOMAIN before
  /\ before["pi"] # SymbolTable["pi"]
  /\ before["euler"] # SymbolTable["euler"]

\* C21: from_map(m) returns a table whose keys are those of m and the four
\* predefined constants; every key of m maps to m's value, also when m
\* redefines a constant, and every constant not in m keeps its default value.
C21_FromMap ==
  call.name = "from_map" =>
    /\ DOMAIN symbols =
         DOMAIN before \cup {"pi", "euler", "phi", "eulerMascheroni"}
    /\ \A name \in DOMAIN before : symbols[name] = before[name]
    /\ \A name \in {"pi", "euler", "phi", "eulerMascheroni"} \ DOMAIN before :
         symbols[name] = SymbolTable[name]

\* from_map was given a map that defines a variable and redefines pi
C21_Witness ==
  /\ call.name = "from_map"
  /\ {"a", "pi"} \subseteq DOMAIN before
  /\ "euler" \notin DOMAIN before
  /\ symbols["pi"] = Num(2)
  /\ symbols["euler"] = SymbolTable["euler"]

\* the tokens the parse has consumed, in the order of the vector
Consumed == SubSeq(Fwd(toks), 1, Len(Fwd(toks)) - Len(stmt.rest))

\* the tokens of the statement returned: those of the tree, after the
\* variable and the ASSIGN of an assignment
StatementTokens ==
  IF stmt.kind = "assignment"
  THEN <<stmt.var, T("ASSIGN")>> \o InOrder(stmt.expr)
  ELSE InOrder(stmt.expr)

IsNoParen(tok) == tok.type \notin {"PAREN_L", "PAREN_R"}

\* C27: when parse_next_statement returns a statement, every token before
\* the first END_OF_FILE or NEWLINE has been consumed into it: the parse
\* stopped at one of the two and the tokens consumed are, parentheses
\* apart, those of the statement.  1 ) 2 and 2 + 3 ) never parse.
C27_NoTrailingTokens ==
  /\ (pc = "parsed" /\ toks # <<>> /\ stmt.k = "ok")
       => /\ peek(stmt.rest).type \in {"END_OF_FILE", "NEWLINE"}
          /\ SelectSeq(Consumed, IsNoParen) = StatementTokens
  /\ (pc = "parsed" /\ toks \in {UnmatchedThenOperand, UnmatchedAtEnd})
       => stmt.k # "ok"

\* the part of C27 that the code does enforce: a parse that returns has
\* stopped at END_OF_FILE, NEWLINE or PAREN_R (or at a function token whose
\* binding power was read from an empty optional), and has put every token
\* it consumed into the statement
C27_StopsAtEndOrParenR ==
  (pc = "parsed" /\ toks # <<>> /\ stmt.k = "ok")
  => /\ peek(stmt.rest).type \in
          {"END_OF_FILE", "NEWLINE", "PAREN_R"} \cup FuncKinds
     /\ SelectSeq(Consumed, IsNoParen) = StatementTokens

\* the tokens of the statement: those before the first END_OF_FILE or
\* NEWLINE of the vector
RECURSIVE StatementPart(_)
StatementPart(v) ==
  IF v = <<>> \/ v[1].type \in {"END_OF_FILE", "NEWLINE"} THEN <<>>
  ELSE <<v[1]>> \o StatementPart(Tail(v))

\* an ASSIGN stands elsewhere than second after an IDENTIFIER
HasStrayAssign(v) ==
  \E i \in 1..Len(StatementPart(v)) :
    /\ v[i].type = "ASSIGN"
    /\ ~(i = 2 /\ v[1].type = "IDENTIFIER")

\* C30: a statement parses as an assignment if and only if its first two
\* tokens are IDENTIFIER then ASSIGN; an ASSIGN in any other position
\* (a = b = 3, 1 = 2, (a) = 3, = 3) makes parse_next_statement raise a
\* parser error and return no statement.
C30_AssignOnlySecond ==
  (pc = "parsed" /\ toks # <<>>)
  => /\ (stmt.k = "ok" /\ stmt.kind = "assignment") => StartsAssignment(toks)
     /\ (stmt.k = "ok" /\ StartsAssignment(toks)) => stmt.kind = "assignment"
     /\ HasStrayAssign(toks) => stmt.k = "err"

\* the part of C30 that the code does enforce: the iff, the four examples,
\* and that no statement returned has consumed a stray ASSIGN
C30_NoAssignConsumed ==
  (pc = "parsed" /\ toks # <<>>)
  => /\ (stmt.k = "ok" /\ stmt.kind = "assignment") => StartsAssignment(toks)
     /\ (stmt.k = "ok" /\ StartsAssignment(toks)) => stmt.kind = "assignment"
     /\ toks \in {AssignTwice, AssignToParens, <<N(1), T("ASSIGN"), N(2)>>,
                  <<T("ASSIGN"), N(3)>>, <<T("ASSIGN"), N(1)>>}
          => stmt.k = "err"
     /\ stmt.k = "ok" => ~HasStrayAssign(Consumed)
     /\ (HasStrayAssign(toks) /\ stmt.k = "ok") =>
          peek(stmt.rest).type \in {"PAREN_R"} \cup FuncKinds

\* C25: parse_assignment, called when the current token is anything but
\* ASSIGN, a NUMBER or an IDENTIFIER included, raises ExpectedToken with a
\* copy of the current token, payload included, and never a
\* std::invalid_argument.
C25_ExpectedAssign ==
  /\ pc = "assigned"
  /\ toks # <<>>
  /\ peek(TokenList(toks)).type # "ASSIGN"
  => /\ stmt.k = "err"
     /\ stmt.err = "ExpectedToken"
     /\ stmt.tok = peek(TokenList(toks))

\* the part of C25 that the code does enforce: a current token of a kind
\* that has no payload
C25_ExpectedAssignNoPayload ==
  /\ pc = "assigned"
  /\ toks # <<>>
  /\ peek(TokenList(toks)).type \notin {"ASSIGN", "NUMBER", "IDENTIFIER"}
  => /\ stmt.k = "err"
     /\ stmt.err = "ExpectedToken"
     /\ stmt.tok = peek(TokenList(toks))

(***************************************************************************)
(* Properties of the token stream, checked under SpecTokens.               *)
(***************************************************************************)

\* C23: on a stream that is at its end, next and peek return the END_OF_FILE
\* sentinel and do not advance: the contents stay the same and at_end stays
\* true, however many times they are called, until a give_back.
C23_NextAtEnd ==
  [][/\ pc = "ready"
     /\ m_tokens # <<>>
     /\ at_end(m_tokens)
     /\ stmt'.kind \in {"peek", "next"}
     => /\ stmt'.tok = Token("END_OF_FILE")
        /\ m_tokens' = m_tokens
        /\ at_end(m_tokens')
        /\ pc' = "ready"]_vars

\* the tokens of a stream have all been consumed, and next, called at the
\* end, has returned the sentinel
C23_Witness ==
  /\ pc = "ready"
  /\ Len(toks) > 1
  /\ stmt.kind = "next"
  /\ stmt.tok = Token("END_OF_FILE")
  /\ m_tokens = <<Token("END_OF_FILE")>>

\* what the calls of next that follow will return, up to the sentinel
RECURSIVE Pending(_)
Pending(s) ==
  IF s = <<>> THEN <<>>
  ELSE IF at_end(s) THEN <<back(s)>>
  ELSE <<back(s)>> \o Pending(pop_back(s))

\* a step that is a call of give_back on a stream that is not empty, of next
\* on a stream that is not at its end
IsGiveBack ==
  /\ pc = "ready"
  /\ m_tokens # <<>>
  /\ stmt'.kind = "give_back"
  /\ m_tokens' # m_tokens
IsNextBeforeEnd ==
  /\ pc = "ready"
  /\ m_tokens # <<>>
  /\ ~at_end(m_tokens)
  /\ stmt'.kind = "next"
  /\ m_tokens' # m_tokens

\* C24, as stated, for every token t: give_back(t) makes t the result of
\* the next peek and of the next next, after which the stream continues as
\* it was before the give_back; t = next(); give_back(t) on a stream that is
\* not at its end restores the stream.
C24_GiveBackAnyToken ==
  [][/\ IsGiveBack =>
          /\ peek(m_tokens') = stmt'.tok
          /\ next_token(m_tokens') = stmt'.tok
          /\ Pending(next_rest(m_tokens')) = Pending(m_tokens)
     /\ IsNextBeforeEnd => give_back(m_tokens', stmt'.tok) = m_tokens]_vars

\* C24, amended: the same for every token t that is not END_OF_FILE (the
\* stream is then exactly what it was), and for END_OF_FILE given back to a
\* stream that is at its end.
C24_GiveBack ==
  [][/\ IsGiveBack /\ stmt'.tok.type # "END_OF_FILE" =>
          /\ peek(m_tokens') = stmt'.tok
          /\ next_token(m_tokens') = stmt'.tok
          /\ next_rest(m_tokens') = m_tokens
     /\ IsGiveBack /\ at_end(m_tokens) =>
          /\ peek(m_tokens') = stmt'.tok
          /\ next_token(m_tokens') = stmt'.tok
          /\ Pending(next_rest(m_tokens')) = Pending(m_tokens)
     /\ IsNextBeforeEnd => give_back(m_tokens', stmt'.tok) = m_tokens]_vars

\* a token taken by next has been given back, and the stream is again what
\* the constructor made of the vector
C24_Witness ==
  /\ pc = "ready"
  /\ Len(toks) > 1
  /\ stmt.kind = "give_back"
  /\ stmt.tok = toks[1]
  /\ m_tokens = TokenList(toks)

(***************************************************************************)
(* Properties of the loop of main, checked under Spec.                     *)
(***************************************************************************)

\* what the three catch clauses of main print
Reports == {"ERROR DE SINTAXIS", "ERROR DE EVALUACION", "ERROR"}

\* C22: the loop never stops on a failed statement: from the prompt it goes
\* back to the prompt, and it ends (main returns 0) only when the input ends
\* or the line is exit or quit.
C22_NeverStops ==
  [][pc = "prompt" =>
       \/ pc' = "prompt"
       \/ pc' = "exit" /\ (lines' = lines \/ out'.text = "Saliendo...")]_vars

\* the part of C22 that the catch clauses do enforce: a line that ends in a
\* report of a parser error, an evaluation error or another exception is
\* followed by the prompt, and a line that stops the loop without exit or
\* quit is one whose evaluation reached the unreachable default case
C22_ReportedErrorsContinue ==
  [][/\ lines' # lines /\ out'.text \in Reports => pc' = "prompt"
     /\ pc = "prompt" /\ pc' \notin {"prompt", "exit"} =>
          /\ out'.ev.k = "ub"
          /\ \E e \in Subtrees(stmt'.expr) :
               e.type = "BIN_OP" /\ e.tok.type \notin BinaryKinds]_vars

(***************************************************************************)
(* SpecPowers: the binding powers of two tokens are queried, the unary one *)
(* of the first and the binary one of the second, in either order          *)
(* (src/src/tokens.cpp).  call.lhs and call.rhs hold what was returned.    *)
(***************************************************************************)
AllTokens ==
  {Token(type) : type \in TokenTypes \ {"NUMBER", "IDENTIFIER"}}
    \cup {N(1), I("a")}

InitPowers ==
  /\ pc = "new"
  /\ toks \in [1..2 -> AllTokens]
  /\ m_tokens = <<>>
  /\ stmt = NoStmt
  /\ symbols = SymbolTable
  /\ before = SymbolTable
  /\ out = NoOut
  /\ lines = 0
  /\ NoAst
  /\ frames = <<>>

\* toks[1].get_unary_binding_power()
Powers_unary ==
  /\ pc \in {"new", "binary"}
  /\ pc' = IF pc = "new" THEN "unary" ELSE "both"
  /\ call' = [call EXCEPT !.name = "get_unary_binding_power",
                          !.lhs = get_unary_binding_power(toks[1])]
  /\ UNCHANGED <<symbols, before, toks, m_tokens, stmt, out, lines, heap, held,
                 frames>>

\* toks[2].get_binary_binding_power()
Powers_binary ==
  /\ pc \in {"new", "unary"}
  /\ pc' = IF pc = "new" THEN "binary" ELSE "both"
  /\ call' = [call EXCEPT !.name = "get_binary_binding_power",
                          !.rhs = get_binary_binding_power(toks[2])]
  /\ UNCHANGED <<symbols, before, toks, m_tokens, stmt, out, lines, heap, held,
                 frames>>

NextPowers == Powers_unary \/ Powers_binary

SpecPowers == InitPowers /\ [][NextPowers]_vars

\* C26: the unary binding power is 5 for OP_PLUS and OP_MINUS, 4 for each of
\* the eight functions and undefined for every other kind; every defined
\* unary binding power is greater than every binary binding power, which is
\* 1, 2 or 3.
C26_UnaryBindingPower ==
  /\ pc \in {"unary", "both"} =>
       call.lhs = IF toks[1].type \in {"OP_PLUS", "OP_MINUS"} THEN <<5>>
                  ELSE IF toks[1].type \in
                            {"OP_FUNC_SQRT", "OP_FUNC_LOG", "OP_FUNC_SIN",
                             "OP_FUNC_COS", "OP_FUNC_TAN", "OP_FUNC_ARCSIN",
                             "OP_FUNC_ARCCOS", "OP_FUNC_ARCTAN"} THEN <<4>>
                  ELSE <<>>
  /\ pc = "both" /\ call.lhs # <<>> /\ call.rhs # <<>> =>
       call.rhs[1] \in {1, 2, 3} /\ call.lhs[1] > call.rhs[1]

\* the unary power of a function and the binary power of ^ have been queried
C26_Witness ==
  /\ pc = "both"
  /\ toks[1].type = "OP_FUNC_ARCTAN"
  /\ toks[2].type = "OP_CARET"
  /\ call.lhs = <<4>>
  /\ call.rhs = <<3>>

(***************************************************************************)
(* SpecSteps: parse_next_statement one step at a time.  frames is the      *)
(* stack of the calls of parse_expression_recursive in progress, the       *)
(* running one last; a step is the entry of a call up to its loop, or one  *)
(* iteration of the loop, and a call that returns hands its result to its  *)
(* caller within the step (src/src/parser.cpp:28-116).  While the parse    *)
(* runs, stmt keeps the kind of the statement and its variable.            *)
(***************************************************************************)
StepAlphabet ==
  {N(1), I("a"), T("OP_PLUS"), T("OP_CARET"), T("OP_FUNC_SQRT"), T("ASSIGN"),
   T("PAREN_L"), T("PAREN_R"), T("END_OF_FILE")}

StepInputs ==
  BoundedSeq(StepAlphabet, MaxLen) \cup Statements
    \cup {TestExpresionCompuesta, TestAsignacion, TestError3}

\* a call of parse_expression_recursive(minimal_binding_power): where it is
\* (entry, loop, or waiting for the call it made after a ParenL or after an
\* operator) and its locals
Frame(minimal_binding_power) ==
  [minimal_binding_power |-> minimal_binding_power, at |-> "entry",
   lhs |-> NoExpr, first_tok |-> NoToken, operator_tok |-> NoToken]

InitSteps ==
  /\ pc = "new"
  /\ toks \in StepInputs
  /\ m_tokens = <<>>
  /\ stmt = NoStmt
  /\ symbols = SymbolTable
  /\ before = SymbolTable
  /\ out = NoOut
  /\ lines = 0
  /\ NoAst
  /\ frames = <<>>

\* parse_next_statement up to its call of parse_expression: the dispatch on
\* the first two tokens (parser.cpp:104-116, 91-95)
Steps_begin ==
  /\ pc = "ready"
  /\ IF m_tokens = <<>>
     THEN \/ pc' = "crashed" /\ UNCHANGED <<stmt, m_tokens, frames>>
          \/ /\ pc' = "parsed"
             /\ stmt' = ParseOfEmpty(0)
             /\ UNCHANGED <<m_tokens, frames>>
     ELSE /\ pc' = "running"
          /\ frames' = <<Frame(-1)>>
          /\ IF peek(m_tokens).type = "IDENTIFIER"
                /\ peek(next_rest(m_tokens)).type = "ASSIGN"
             THEN /\ stmt' = [NoStmt EXCEPT !.kind = "assignment",
                                            !.var = next_token(m_tokens)]
                  /\ m_tokens' = next_rest(next_rest(m_tokens))
             ELSE /\ stmt' = [NoStmt EXCEPT !.kind = "expression"]
                  /\ m_tokens' =
                       IF peek(m_tokens).type = "IDENTIFIER"
                       THEN give_back(next_rest(m_tokens), next_token(m_tokens))
                       ELSE m_tokens
  /\ UNCHANGED <<symbols, before, toks, out, lines, ast>>

\* the parse ends: r is what parse_expression returned or threw
Finish(r) ==
  /\ pc' = "parsed"
  /\ stmt' = StmtOf(stmt.kind, stmt.var, r)
  /\ m_tokens' = r.rest
  /\ frames' = <<>>

\* the running call returns lhs, the stream being s: its caller goes on to
\* its loop, after the ParenR it asks for or with the node it builds
Return(lhs, s) ==
  IF Len(frames) = 1 THEN Finish(ParseOk(lhs, s))
  ELSE
    LET caller == frames[Len(frames) - 1]
        below == SubSeq(frames, 1, Len(frames) - 2)
    IN
    IF caller.at = "after_paren"
    THEN LET after_paren == next_token(s)
             s2 == next_rest(s)
         IN
         IF ~closes_paren(after_paren)
         THEN Finish(ParseErr("MismatchedParentheses", after_paren,
                              caller.first_tok, s2))
         ELSE /\ frames' = Append(below, [caller EXCEPT !.at = "loop",
                                                        !.lhs = lhs])
              /\ m_tokens' = s2
              /\ UNCHANGED <<pc, stmt>>
    ELSE IF ~BinOpExpression_valid(caller.operator_tok)
    THEN Finish(ParseInvalidArgument(s))
    ELSE /\ frames' =
              Append(below,
                     [caller EXCEPT
                        !.at = "loop",
                        !.lhs = Expression_bin_op(caller.operator_tok,
                                                  caller.lhs, lhs)])
         /\ m_tokens' = s
         /\ UNCHANGED <<pc, stmt>>

\* the entry of parse_expression_recursive: first_tok = m_tokens.next() and
\* the switch on it (parser.cpp:29-46)
Steps_enter ==
  /\ pc = "running"
  /\ frames[Len(frames)].at = "entry"
  /\ LET running == frames[Len(frames)]
         below == SubSeq(frames, 1, Len(frames) - 1)
         first_tok == next_token(m_tokens)
         s1 == next_rest(m_tokens)
     IN
     IF prefix_case(first_tok) = "operand"
     THEN IF ~OperandExpression_valid(first_tok)
          THEN Finish(ParseInvalidArgument(s1))
          ELSE /\ frames' =
                    Append(below,
                           [running EXCEPT
                              !.at = "loop",
                              !.lhs = Expression_operand(first_tok)])
               /\ m_tokens' = s1
               /\ UNCHANGED <<pc, stmt>>
     ELSE IF prefix_case(first_tok) = "paren"
     THEN /\ frames' =
               Append(below, [running EXCEPT !.at = "after_paren",
                                             !.first_tok = first_tok])
                 \o <<Frame(0)>>
          /\ m_tokens' = s1
          /\ UNCHANGED <<pc, stmt>>
     ELSE Finish(ParseErr("ExpectedToken", first_tok, NoToken, s1))
  /\ UNCHANGED <<symbols, before, toks, out, lines, ast>>

\* one iteration of the while(true) loop (parser.cpp:50-84); the int read
\* from an empty optional is any of UninitInts
Steps_loop ==
  /\ pc = "running"
  /\ frames[Len(frames)].at = "loop"
  /\ LET running == frames[Len(frames)]
         below == SubSeq(frames, 1, Len(frames) - 1)
         operator_tok == peek(m_tokens)
     IN
     IF ends_expression(operator_tok)
     THEN Return(running.lhs, m_tokens)
     ELSE IF throws_expected_operator(operator_tok)
     THEN Finish(ParseErr("ExpectedOperator", operator_tok, NoToken, m_tokens))
     ELSE
       \E uninit \in Uninits(toks) :
         LET current_binding_power ==
               deref(get_binary_binding_power(operator_tok), uninit)
         IN
         IF stops_binding(current_binding_power,
                          running.minimal_binding_power, operator_tok)
         THEN Return(running.lhs, m_tokens)
         ELSE /\ frames' =
                   Append(below, [running EXCEPT !.at = "after_rhs",
                                                 !.operator_tok = operator_tok])
                     \o <<Frame(current_binding_power)>>
              /\ m_tokens' = next_rest(m_tokens)
              /\ UNCHANGED <<pc, stmt>>
  /\ UNCHANGED <<symbols, before, toks, out, lines, ast>>

NextSteps == Construct \/ Steps_begin \/ Steps_enter \/ Steps_loop

SpecSteps == InitSteps /\ [][NextSteps]_vars

\* the scheduling of a sequential program: the statement that is next runs
SpecStepsFair == SpecSteps /\ WF_vars(NextSteps)

\* the steps end in the statement or the error the recursive definition
\* gives, for the vectors where no int is read from an empty optional
StepsAgree ==
  (pc = "parsed" /\ toks # <<>> /\ Uninits(toks) = {0})
  => stmt = parse_next_statement(TokenList(toks), 0)

\* a step of the running parse consumes a token that is not END_OF_FILE, or
\* ends a call, or ends the parse; what is left to do gets smaller
Progress ==
  /\ \/ pc' # "running"
     \/ Len(frames') < Len(frames)
     \/ /\ m_tokens' = pop_back(m_tokens)
        /\ back(m_tokens).type # "END_OF_FILE"
  /\ pc' = "running" =>
       2 * Len(m_tokens') + Len(frames') < 2 * Len(m_tokens) + Len(frames)

\* C28: parse_next_statement terminates on every finite token sequence, with
\* a statement or an error: every call of parse_expression_recursive and
\* every iteration of its loop consumes a token that is not END_OF_FILE or
\* ends the call, also when the stream is at its end ( `(`, `1 +`, `((((` ).
C28_Terminates ==
  /\ [][pc = "running" => Progress]_vars
  /\ (pc = "ready" /\ m_tokens # <<>>) ~> (pc = "parsed" /\ frames = <<>>)

\* the parse of (((( has ended, on the END_OF_FILE that follows the parens
C28_Witness ==
  /\ pc = "parsed"
  /\ toks = OpenParens
  /\ stmt.k = "err"
  /\ stmt.err = "ExpectedToken"
  /\ stmt.tok = T("END_OF_FILE")
  /\ m_tokens = <<T("END_OF_FILE")>>

====
